---- MODULE Spec2Model ----
(***************************************************************************)
(* Build-process supervisor of installer_creator.                          *)
(*                                                                         *)
(*   EngineSpec  the GUI worker's per-line handler                         *)
(*               (ConfigEditorWindow._run_command_thread, PTY branch)      *)
(*               together with the UI slots its signals are connected to   *)
(*               (append_output, update_*_progress, update_*_status).      *)
(*   GuiSpec     the editor window: build requests, clear_output,          *)
(*               command_finished, cancel_build and the worker threads.    *)
(*   CancelSpec  cancel_build statement by statement, for any shape of     *)
(*               the registered handle, with the build's worker alongside. *)
(*   PtySpec     build_exe.py: the PTY reader thread (_enqueue_output)     *)
(*               and the consumer loop of main; FairPtySpec adds the       *)
(*               scheduling of the two threads.                            *)
(*   RunSpec     one build run of the worker on either branch, up to       *)
(*               signals.finished; FairRunSpec schedules the worker.       *)
(*   MainSpec    build_exe.main stage by stage; FairMainSpec schedules     *)
(*               the collection of the exit code.                          *)
(*   RelaySpec   the read loop of build_exe.main: the echo of the child's  *)
(*               output and the PROGRESS lines added to it.                *)
(*   SignalSpec  build_exe.main with signal_handler firing at any stage.   *)
(*   HeartbeatSpec  the PTY read loop of build_exe.main with its idle      *)
(*               heartbeat on stderr.                                      *)
(*   SplitSpec   the PTY branch of the worker reading text whose escape    *)
(*               sequences the reads cut.                                  *)
(*   NormalizerSpec  append_output fed by every emitter of signals.output. *)
(*                                                                         *)
(* Text is a sequence of one-character strings; the escape character is    *)
(* the token "ESC" and the block glyphs of a progress bar are the token    *)
(* "BLK".                                                                  *)
(***************************************************************************)
EXTENDS Integers, Sequences, FiniteSets, TLC

\* ------------------------------------------------------------------------
\* Bounds
\* ------------------------------------------------------------------------
\* number of reads of child output in one run
MaxReads == 2
\* number of builds the user starts
MaxBuilds == 2
\* number of reads of the PTY reader thread that return text
MaxChunks == 2

\* ------------------------------------------------------------------------
\* Character classes and Python str helpers
\* ------------------------------------------------------------------------
ESC == "ESC"
BLK == "BLK"

UpperChars == <<"A","B","C","D","E","F","G","H","I","J","K","L","M",
                "N","O","P","Q","R","S","T","U","V","W","X","Y","Z">>
LowerChars == <<"a","b","c","d","e","f","g","h","i","j","k","l","m",
                "n","o","p","q","r","s","t","u","v","w","x","y","z">>
DigitChars == <<"0","1","2","3","4","5","6","7","8","9">>

Range(f) == {f[i] : i \in DOMAIN f}

IsUpper(c) == c \in Range(UpperChars)
IsLetter(c) == c \in Range(UpperChars) \cup Range(LowerChars)
IsDigit(c) == c \in Range(DigitChars)
\* str.isspace for the characters that occur in child output
IsSpace(c) == c \in {" ", "\n", "\r", "\t"}

DigitVal(c) == (CHOOSE i \in 1..10 : DigitChars[i] = c) - 1

\* str.lower, one character
LowerChar(c) ==
  IF IsUpper(c) THEN LowerChars[CHOOSE i \in 1..26 : UpperChars[i] = c] ELSE c
\* str.upper, one character
UpperChar(c) ==
  IF c \in Range(LowerChars)
  THEN UpperChars[CHOOSE i \in 1..26 : LowerChars[i] = c] ELSE c

Lower(s) == [i \in 1..Len(s) |-> LowerChar(s[i])]
Upper(s) == [i \in 1..Len(s) |-> UpperChar(s[i])]

\* s[i:] in Python terms, with i a 1-based first index
From(s, i) == SubSeq(s, i, Len(s))

Min(S) == CHOOSE x \in S : \A y \in S : x <= y
Max(S) == CHOOSE x \in S : \A y \in S : x >= y

\* does pat occur in s starting at index i
MatchAt(s, pat, i) ==
  /\ i >= 1
  /\ i + Len(pat) - 1 <= Len(s)
  /\ \A k \in 1..Len(pat) : s[i + k - 1] = pat[k]

\* pat in s
Contains(s, pat) == \E i \in 1..(Len(s) - Len(pat) + 1) : MatchAt(s, pat, i)

\* s.startswith(pat)
StartsWith(s, pat) == MatchAt(s, pat, 1)

\* s.endswith(pat)
EndsWith(s, pat) == Len(pat) <= Len(s) /\ MatchAt(s, pat, Len(s) - Len(pat) + 1)

\* s.strip()
Strip(s) ==
  LET keep == {i \in 1..Len(s) : ~IsSpace(s[i])}
  IN  IF keep = {} THEN <<>>
      ELSE LET lo == CHOOSE i \in keep : \A j \in keep : i <= j
               hi == CHOOSE i \in keep : \A j \in keep : i >= j
           IN  SubSeq(s, lo, hi)

\* s.rstrip("\n")
RStripNewline(s) ==
  LET keep == {i \in 1..Len(s) : s[i] # "\n"}
  IN  IF keep = {} THEN <<>>
      ELSE SubSeq(s, 1, CHOOSE i \in keep : \A j \in keep : i >= j)

\* first index >= i at which s has a character outside the class, or Len(s)+1
RunEnd(s, i, InClass(_)) ==
  LET stop == {j \in i..Len(s) : ~InClass(s[j])}
  IN  IF stop = {} THEN Len(s) + 1
      ELSE CHOOSE j \in stop : \A k \in stop : j <= k

RECURSIVE DigitsValue(_)
\* value of a non-empty run of decimal digits
DigitsValue(d) ==
  IF Len(d) = 0 THEN 0
  ELSE 10 * DigitsValue(SubSeq(d, 1, Len(d) - 1)) + DigitVal(d[Len(d)])

\* int(text): optional surrounding whitespace, optional sign, decimal digits.
\* ok = FALSE stands for ValueError.
ParseBody(body, neg) ==
  IF Len(body) > 0 /\ \A i \in 1..Len(body) : IsDigit(body[i])
  THEN [ok |-> TRUE,
        val |-> IF neg THEN 0 - DigitsValue(body) ELSE DigitsValue(body)]
  ELSE [ok |-> FALSE, val |-> 0]
ParseSigned(t) ==
  ParseBody(IF Len(t) > 0 /\ t[1] \in {"-", "+"} THEN From(t, 2) ELSE t,
            Len(t) > 0 /\ t[1] = "-")
ParseInt(text) == ParseSigned(Strip(text))

\* s.split(":", 2)
SplitColon2(s) ==
  LET cols == {i \in 1..Len(s) : s[i] = ":"}
  IN  IF cols = {} THEN <<s>>
      ELSE LET c1 == CHOOSE i \in cols : \A j \in cols : i <= j
               rest == {i \in cols : i > c1}
           IN  IF rest = {} THEN <<SubSeq(s, 1, c1 - 1), From(s, c1 + 1)>>
               ELSE LET c2 == CHOOSE i \in rest : \A j \in rest : i <= j
                    IN  <<SubSeq(s, 1, c1 - 1), SubSeq(s, c1 + 1, c2 - 1),
                          From(s, c2 + 1)>>


\* ------------------------------------------------------------------------
\* Regular expressions of the worker and of append_output
\* ------------------------------------------------------------------------
\* the subsequence of s at the indices in keep, in order
KeepIndices(s, keep) ==
  LET rank == [i \in 1..Len(s) |-> Cardinality({j \in keep : j <= i})]
  IN  [k \in 1..Cardinality(keep) |-> s[CHOOSE i \in keep : rank[i] = k]]

\* re.sub(ESC \[ [params]* [a-zA-Z], "", s).  A match begins at an escape
\* character and holds no other one, so matches never overlap.
StripAnsi(s, params) ==
  LET MatchEnd(i) == RunEnd(s, i + 2, LAMBDA c : c \in params)
      starts == {i \in 1..Len(s) :
                   /\ s[i] = ESC /\ i + 1 <= Len(s) /\ s[i + 1] = "["
                   /\ MatchEnd(i) <= Len(s) /\ IsLetter(s[MatchEnd(i)])}
      gone   == UNION {i..MatchEnd(i) : i \in starts}
  IN  IF starts = {} THEN s ELSE KeepIndices(s, (1..Len(s)) \ gone)

\* the worker's re.sub(r"\x1b\[[0-9;]*[a-zA-Z]", "", line)
CleanLine(line) == StripAnsi(line, Range(DigitChars) \cup {";"})

\* append_output's ansi_re.sub("", text), r"\x1b\[[0-9;?]*[A-Za-z]"
AnsiReSub(text) == StripAnsi(text, Range(DigitChars) \cup {";", "?"})

\* re.sub(r"\n{3,}", "\n\n", s)
CollapseNewlines(s) ==
  LET keep == {i \in 1..Len(s) :
                 ~(s[i] = "\n" /\ i >= 3 /\ s[i - 1] = "\n" /\ s[i - 2] = "\n")}
  IN  IF keep = 1..Len(s) THEN s ELSE KeepIndices(s, keep)

NoMatch == [ok |-> FALSE]

\* (\d+(?:\.\d+)?)% anchored at index p: the number text and the index of "%"
NumGroups(s, p, d, f) ==
  IF p > Len(s) \/ d = p THEN NoMatch
  ELSE IF d <= Len(s) /\ s[d] = "." /\ f > d + 1 /\ f <= Len(s) /\ s[f] = "%"
       THEN [ok |-> TRUE, text |-> SubSeq(s, p, f - 1),
             whole |-> SubSeq(s, p, d - 1), pct |-> f]
       ELSE IF d <= Len(s) /\ s[d] = "%"
            THEN [ok |-> TRUE, text |-> SubSeq(s, p, d - 1),
                  whole |-> SubSeq(s, p, d - 1), pct |-> d]
            ELSE NoMatch
NumAt(s, p) ==
  LET At(d) == NumGroups(s, p, d, RunEnd(s, d + 1, IsDigit))
  IN  At(RunEnd(s, p, IsDigit))

\* int(float(text)) for the text matched by (\d+(?:\.\d+)?)
PercentInt(m) == DigitsValue(m.whole)

\* \|\s*(\d+)/(\d+),\s*(.+) with the "|" at index b
BarName(s, g) == SubSeq(s, g, RunEnd(s, g, LAMBDA c : c # "\n") - 1)
\* w, d1, d2: the ends of \s*, (\d+) and (\d+); gs: where (.+) can begin once
\* the greedy \s* has given characters back
BarTailGroups(s, b, w, d1, d2, gs) ==
  IF /\ b <= Len(s) /\ s[b] = "|"
     /\ d1 > w /\ d1 <= Len(s) /\ s[d1] = "/"
     /\ d2 > d1 + 1 /\ d2 <= Len(s) /\ s[d2] = ","
     /\ gs # {}
  THEN [ok |-> TRUE, current |-> SubSeq(s, w, d1 - 1),
        total |-> SubSeq(s, d1 + 1, d2 - 1), name |-> BarName(s, Max(gs))]
  ELSE NoMatch
BarTailAt(s, b) ==
  LET T3(w, d1, d2) ==
        BarTailGroups(s, b, w, d1, d2,
          {g \in (d2 + 1)..RunEnd(s, d2 + 1, IsSpace) :
             g <= Len(s) /\ s[g] # "\n"})
      T2(w, d1) == T3(w, d1, RunEnd(s, d1 + 1, IsDigit))
      T1(w)     == T2(w, RunEnd(s, w, IsDigit))
  IN  T1(RunEnd(s, b + 1, IsSpace))

\* :\s+(\d+(?:\.\d+)?)%.*?\|\s*(\d+)/(\d+),\s*(.+) with the ":" at index c
BarPipes(s, num) ==
  {b \in (num.pct + 1)..Len(s) :
     /\ \A k \in (num.pct + 1)..(b - 1) : s[k] # "\n"
     /\ BarTailAt(s, b).ok}
BarRestPick(s, num, bars) ==
  IF bars = {} THEN NoMatch
  ELSE [ok |-> TRUE, num |-> num, tail |-> BarTailAt(s, Min(bars))]
BarRestNum(s, c, w, num) ==
  IF w > c + 1 /\ num.ok THEN BarRestPick(s, num, BarPipes(s, num))
  ELSE NoMatch
BarRestAt(s, c) ==
  LET R(w) == BarRestNum(s, c, w, NumAt(s, w))
  IN  R(RunEnd(s, c + 1, IsSpace))

\* re.search(r'([^:]+):\s+(\d+(?:\.\d+)?)%.*?\|\s*(\d+)/(\d+),\s*(.+)', s)
BarColons(s) ==
  {c \in 2..Len(s) : s[c] = ":" /\ s[c - 1] # ":" /\ BarRestAt(s, c).ok}
\* ([^:]+) reaches back to the colon before, or to the start of the line
BarTaskStart(s, c) ==
  LET prev == {k \in 1..(c - 1) : s[k] = ":"}
  IN  IF prev = {} THEN 1 ELSE 1 + Max(prev)
BarGroups(s, c, r) ==
  [ok |-> TRUE, task_type |-> SubSeq(s, BarTaskStart(s, c), c - 1),
   num |-> r.num, current |-> r.tail.current, total |-> r.tail.total,
   name |-> r.tail.name]
BarMatchIn(s, cols) ==
  IF cols = {} THEN NoMatch ELSE BarGroups(s, Min(cols), BarRestAt(s, Min(cols)))
progress_bar_match(s) == BarMatchIn(s, BarColons(s))

\* re.search(r'(\d+(?:\.\d+)?)%', s)
SimplePick(s, starts) ==
  IF starts = {} THEN NoMatch ELSE NumAt(s, Min(starts))
simple_percent_match(s) == SimplePick(s, {i \in 1..Len(s) : NumAt(s, i).ok})

P_compiling == <<"c","o","m","p","i","l","i","n","g">>
P_of == <<"o","f">>

\* \((\d+)\s+of\s+(\d+)\) with the "(" at index b, on the lower-cased line
ModuleTailGroups(s, b, d1, w1, w2, d2) ==
  IF /\ b <= Len(s) /\ s[b] = "("
     /\ d1 > b + 1 /\ w1 > d1 /\ MatchAt(s, P_of, w1)
     /\ w2 > w1 + 2 /\ d2 > w2 /\ d2 <= Len(s) /\ s[d2] = ")"
  THEN [ok |-> TRUE, current |-> SubSeq(s, b + 1, d1 - 1),
        total |-> SubSeq(s, w2, d2 - 1)]
  ELSE NoMatch
ModuleTailAt(s, b) ==
  LET T4(d1, w1, w2) ==
        ModuleTailGroups(s, b, d1, w1, w2, RunEnd(s, w2, IsDigit))
      T3(d1, w1) == T4(d1, w1, RunEnd(s, w1 + 2, IsSpace))
      T2(d1)     == T3(d1, RunEnd(s, d1, IsSpace))
  IN  T2(RunEnd(s, b + 1, IsDigit))

\* re.search(r'compiling.*?\((\d+)\s+of\s+(\d+)\)', s, re.IGNORECASE)
ModuleHits(s, low) ==
  {p \in (1..Len(s)) \X (1..Len(s)) :
     /\ MatchAt(low, P_compiling, p[1])
     /\ p[2] >= p[1] + Len(P_compiling)
     /\ \A k \in (p[1] + Len(P_compiling))..(p[2] - 1) : s[k] # "\n"
     /\ ModuleTailAt(low, p[2]).ok}
\* leftmost start, and from it the nearest "(" (.*? is lazy)
ModulePick(low, hits) ==
  IF hits = {} THEN NoMatch
  ELSE ModuleTailAt(low,
         (CHOOSE x \in hits :
            \A y \in hits : x[1] < y[1] \/ (x[1] = y[1] /\ x[2] <= y[2]))[2])
module_match(s) ==
  LET M(low) == ModulePick(low, ModuleHits(s, low))
  IN  M(Lower(s))

\* int((current_module / total_modules) * 100): the quotient is a binary
\* float, and for these pairs (all there are with both numbers below 60)
\* the product falls just short of the exact value, so int() yields one less.
FloatShortPairs ==
  {<<23,5>>, <<41,5>>, <<46,5>>, <<51,5>>, <<23,10>>, <<41,10>>, <<46,10>>,
   <<51,10>>, <<23,20>>, <<41,20>>, <<46,20>>, <<51,20>>, <<29,25>>,
   <<57,25>>, <<58,25>>, <<46,40>>, <<29,50>>, <<57,50>>, <<58,50>>}

module_percent(current_module, total_modules) ==
  ((current_module * 100) \div total_modules)
    - (IF <<current_module, total_modules>> \in FloatShortPairs THEN 1 ELSE 0)

\* ------------------------------------------------------------------------
\* Regular expressions of the worker's pipe branch
\* ------------------------------------------------------------------------
P_PASS == <<"P","A","S","S">>
P_done == <<"d","o","n","e">>
P_progress == <<"p","r","o","g","r","e","s","s">>

\* PASS\s+\d+: anchored at index p: the index of the ":" (0 when no match)
PassColonGroups(s, p, w, d) ==
  IF MatchAt(s, P_PASS, p) /\ w > p + 4 /\ d > w /\ d <= Len(s) /\ s[d] = ":"
  THEN d ELSE 0
PassColonAt(s, p) ==
  LET C(w) == PassColonGroups(s, p, w, RunEnd(s, w, IsDigit))
  IN  C(RunEnd(s, p + 4, IsSpace))

\* re.search(r'PASS\s+\d+:\s+(\d+(?:\.\d+)?)%.*?\|\s*(\d+)/(\d+),\s*(.+)', s)
PassStarts(s) ==
  {p \in 1..Len(s) : PassColonAt(s, p) # 0 /\ BarRestAt(s, PassColonAt(s, p)).ok}
PassGroups(r) ==
  [ok |-> TRUE, num |-> r.num, current |-> r.tail.current,
   total |-> r.tail.total, name |-> r.tail.name]
PassMatchIn(s, starts) ==
  IF starts = {} THEN NoMatch
  ELSE PassGroups(BarRestAt(s, PassColonAt(s, Min(starts))))
pass_match(s) == PassMatchIn(s, PassStarts(s))

\* re.search(r'\[(\d+)%\]', s): the digits of group 1
BracketAt(s, i, d) ==
  /\ s[i] = "[" /\ d > i + 1 /\ d + 1 <= Len(s) /\ s[d] = "%" /\ s[d + 1] = "]"
BracketStarts(s) ==
  {i \in 1..Len(s) : BracketAt(s, i, RunEnd(s, i + 1, IsDigit))}
BracketPick(s, starts) ==
  IF starts = {} THEN NoMatch
  ELSE [ok |-> TRUE,
        whole |-> SubSeq(s, Min(starts) + 1,
                         RunEnd(s, Min(starts) + 1, IsDigit) - 1)]
bracket_percent_match(s) == BracketPick(s, BracketStarts(s))

\* re.search(r'(\d+)%\s+done', s, re.IGNORECASE) is not None
DoneAt(low, p, d, w) ==
  /\ d > p /\ d <= Len(low) /\ low[d] = "%" /\ w > d + 1 /\ MatchAt(low, P_done, w)
DoneFrom(low, p, d) == DoneAt(low, p, d, RunEnd(low, d + 1, IsSpace))
done_search(s) ==
  LET Found(low) ==
        \E p \in 1..Len(low) : DoneFrom(low, p, RunEnd(low, p, IsDigit))
  IN  Found(Lower(s))

\* re.search(r'progress:?\s*(\d+)%', s, re.IGNORECASE) is not None
ProgressWordAt(low, w, d) == d > w /\ d <= Len(low) /\ low[d] = "%"
ProgressWordFrom(low, q) ==
  LET A(w) == ProgressWordAt(low, w, RunEnd(low, w, IsDigit))
  IN  A(RunEnd(low, q, IsSpace))
progress_word_search(s) ==
  LET Found(low) ==
        \E p \in 1..Len(low) :
          /\ MatchAt(low, P_progress, p)
          /\ ProgressWordFrom(low,
               IF p + 8 <= Len(low) /\ low[p + 8] = ":" THEN p + 9 ELSE p + 8)
  IN  Found(Lower(s))

\* re.search(r'(\d+)%', s): the digits of group 1
IntPercentStarts(s) ==
  {i \in 1..Len(s) :
     /\ IsDigit(s[i])
     /\ RunEnd(s, i, IsDigit) <= Len(s) /\ s[RunEnd(s, i, IsDigit)] = "%"}
IntPercentPick(s, starts) ==
  IF starts = {} THEN NoMatch
  ELSE [ok |-> TRUE,
        whole |-> SubSeq(s, Min(starts), RunEnd(s, Min(starts), IsDigit) - 1)]
int_percent_match(s) == IntPercentPick(s, IntPercentStarts(s))

\* overall_phases (dict of phase -> start, end, message)
overall_phases ==
  [initialization |->
      [start |-> 0, end |-> 10, message |->
      <<"I","n","i","t","i","a","l","i","z","i","n","g"," ","b","u","i",
        "l","d"," ","p","r","o","c","e","s","s",".",".",".">>],
   nuitka_setup |->
      [start |-> 10, end |-> 20, message |->
      <<"S","e","t","t","i","n","g"," ","u","p"," ","N","u","i","t","k",
        "a"," ","e","n","v","i","r","o","n","m","e","n","t",".",".",".">>],
   compilation |->
      [start |-> 20, end |-> 70, message |->
      <<"C","o","m","p","i","l","i","n","g"," ","a","p","p","l","i","c",
        "a","t","i","o","n",".",".",".">>],
   packaging |->
      [start |-> 70, end |-> 90, message |->
      <<"P","a","c","k","a","g","i","n","g"," ","e","x","e","c","u","t",
        "a","b","l","e",".",".",".">>],
   finalization |->
      [start |-> 90, end |-> 100, message |->
      <<"F","i","n","a","l","i","z","i","n","g"," ","b","u","i","l","d",
        ".",".",".">>]]

\* nuitka_markers, in dict (insertion) order
nuitka_markers == <<
  [marker |->
      <<"N","u","i","t","k","a","-","O","p","t","i","o","n","s",":">>,
   phase |-> "nuitka_setup", task_progress |-> 50, message |->
      <<"C","o","n","f","i","g","u","r","i","n","g"," ","N","u","i","t",
        "k","a"," ","o","p","t","i","o","n","s",".",".",".">>],
  [marker |->
      <<"S","t","a","r","t","i","n","g"," ","P","y","t","h","o","n"," ",
        "c","o","m","p","i","l","a","t","i","o","n">>,
   phase |-> "compilation", task_progress |-> 5, message |->
      <<"S","t","a","r","t","i","n","g"," ","P","y","t","h","o","n"," ",
        "c","o","m","p","i","l","a","t","i","o","n",".",".",".">>],
  [marker |->
      <<"C"," ","c","o","m","p","i","l","e","r">>,
   phase |-> "compilation", task_progress |-> 15, message |->
      <<"S","e","t","t","i","n","g"," ","u","p"," ","C"," ","c","o","m",
        "p","i","l","e","r",".",".",".">>],
  [marker |->
      <<"C","o","m","p","i","l","i","n","g">>,
   phase |-> "compilation", task_progress |-> 30, message |->
      <<"C","o","m","p","i","l","i","n","g"," ","P","y","t","h","o","n",
        " ","m","o","d","u","l","e","s",".",".",".">>],
  [marker |->
      <<"G","e","n","e","r","a","t","i","n","g">>,
   phase |-> "compilation", task_progress |-> 50, message |->
      <<"G","e","n","e","r","a","t","i","n","g"," ","C"," ","c","o","d",
        "e",".",".",".">>],
  [marker |->
      <<"B","u","i","l","d","i","n","g"," ","e","x","t","e","n","s","i",
        "o","n"," ","m","o","d","u","l","e","s">>,
   phase |-> "compilation", task_progress |-> 70, message |->
      <<"B","u","i","l","d","i","n","g"," ","e","x","t","e","n","s","i",
        "o","n"," ","m","o","d","u","l","e","s",".",".",".">>],
  [marker |->
      <<"L","i","n","k","i","n","g">>,
   phase |-> "compilation", task_progress |-> 85, message |->
      <<"L","i","n","k","i","n","g"," ","m","o","d","u","l","e","s",".",
        ".",".">>],
  [marker |->
      <<"P","a","c","k","a","g","i","n","g">>,
   phase |-> "packaging", task_progress |-> 30, message |->
      <<"P","a","c","k","a","g","i","n","g"," ","a","p","p","l","i","c",
        "a","t","i","o","n",".",".",".">>],
  [marker |->
      <<"C","o","p","y","i","n","g">>,
   phase |-> "packaging", task_progress |-> 70, message |->
      <<"C","o","p","y","i","n","g"," ","d","e","p","e","n","d","e","n",
        "c","i","e","s",".",".",".">>],
  [marker |->
      <<"E","x","e","c","u","t","a","b","l","e"," ","b","u","i","l","t",
        " ","s","u","c","c","e","s","s","f","u","l","l","y">>,
   phase |-> "finalization", task_progress |-> 100, message |->
      <<"B","u","i","l","d"," ","c","o","m","p","l","e","t","e","d"," ",
        "s","u","c","c","e","s","s","f","u","l","l","y","!">>],
  [marker |->
      <<"N","u","i","t","k","a",":","I","N","F","O",":">>,
   phase |-> "nuitka_setup", task_progress |-> 10, message |->
      <<"N","u","i","t","k","a"," ","i","n","i","t","i","a","l","i","z",
        "a","t","i","o","n",".",".",".">>],
  [marker |->
      <<"N","u","i","t","k","a",":","W","A","R","N","I","N","G",":">>,
   phase |-> "compilation", task_progress |-> 20, message |->
      <<"P","r","o","c","e","s","s","i","n","g"," ","w","a","r","n","i",
        "n","g","s",".",".",".">>],
  [marker |->
      <<"U","s","e","d"," ","P","y","t","h","o","n">>,
   phase |-> "nuitka_setup", task_progress |-> 30, message |->
      <<"P","y","t","h","o","n"," ","e","n","v","i","r","o","n","m","e",
        "n","t"," ","d","e","t","e","c","t","e","d",".",".",".">>],
  [marker |->
      <<"C","r","e","a","t","i","n","g"," ","s","i","n","g","l","e"," ",
        "f","i","l","e">>,
   phase |-> "packaging", task_progress |-> 50, message |->
      <<"C","r","e","a","t","i","n","g"," ","s","i","n","g","l","e"," ",
        "f","i","l","e"," ","e","x","e","c","u","t","a","b","l","e",".",
        ".",".">>],
  [marker |->
      <<"O","p","t","i","m","i","z","a","t","i","o","n">>,
   phase |-> "compilation", task_progress |-> 60, message |->
      <<"O","p","t","i","m","i","z","i","n","g"," ","c","o","d","e",".",
        ".",".">>],
  [marker |->
      <<"B","a","c","k","e","n","d"," ","C"," ","c","o","m","p","i","l",
        "e","r">>,
   phase |-> "compilation", task_progress |-> 25, message |->
      <<"C","o","n","f","i","g","u","r","i","n","g"," ","C"," ","c","o",
        "m","p","i","l","e","r",".",".",".">>],
  [marker |->
      <<"T","o","t","a","l"," ","m","e","m","o","r","y"," ","u","s","a",
        "g","e">>,
   phase |-> "finalization", task_progress |-> 90, message |->
      <<"F","i","n","a","l","i","z","i","n","g"," ","b","u","i","l","d",
        ".",".",".">>]
  >>

P_PROGRESS ==
  <<"P","R","O","G","R","E","S","S",":">>

S_WaitingForNuitka ==
  <<"W","a","i","t","i","n","g"," ","f","o","r"," ","N","u","i","t","k",
    "a"," ","o","u","t","p","u","t",".",".",".">>

S_DebugDetected ==
  <<"[","D","E","B","U","G","]"," ","P","r","o","g","r","e","s","s"," ",
    "l","i","n","e"," ","d","e","t","e","c","t","e","d",":"," ">>

S_DebugBar ==
  <<"[","D","E","B","U","G","]"," ","P","r","o","g","r","e","s","s"," ",
    "b","a","r"," ","m","a","t","c","h","e","d",":"," ">>

S_DebugSimple ==
  <<"[","D","E","B","U","G","]"," ","S","i","m","p","l","e"," ","p","e",
    "r","c","e","n","t","a","g","e"," ","m","a","t","c","h","e","d",":",
    " ">>

S_Compiling ==
  <<"C","o","m","p","i","l","i","n","g"," ">>

S_Packaging ==
  <<"P","a","c","k","a","g","i","n","g"," ">>

S_CompilingModule ==
  <<"C","o","m","p","i","l","i","n","g"," ","m","o","d","u","l","e"," ">>

S_Of ==
  <<" ","o","f"," ">>

S_PASS ==
  <<"P","A","S","S">>

S_ONEFILE ==
  <<"O","N","E","F","I","L","E">>

S_PAYLOAD ==
  <<"P","A","Y","L","O","A","D">>

S_Ellipsis ==
  <<".",".",".">>

S_CommandFailed ==
  <<"C","o","m","m","a","n","d"," ","f","a","i","l","e","d"," ","w","i",
    "t","h"," ","r","e","t","u","r","n"," ","c","o","d","e"," ">>

S_CommandCompleted ==
  <<"C","o","m","m","a","n","d"," ","c","o","m","p","l","e","t","e","d",
    " ","s","u","c","c","e","s","s","f","u","l","l","y","\n">>

S_BuildCompleted ==
  <<"B","u","i","l","d"," ","c","o","m","p","l","e","t","e","d"," ","s",
    "u","c","c","e","s","s","f","u","l","l","y","!">>

S_ErrorReading ==
  <<"E","r","r","o","r"," ","r","e","a","d","i","n","g"," ","o","u","t",
    "p","u","t",":"," ">>

\* the debug echo's patterns
DebugPatterns ==
  {<<"%">>,
   <<"c","o","m","p","i","l","i","n","g">>,
   <<"p","r","o","g","r","e","s","s">>,
   <<"d","o","n","e">>,
   <<"n","u","i","t","k","a">>,
   <<"p","a","y","l","o","a","d">>}

\* the bare-percentage step's keywords
PercentKeywords ==
  {<<"p","r","o","g","r","e","s","s">>,
   <<"d","o","n","e">>,
   <<"c","o","m","p","i","l","i","n","g">>,
   <<"b","u","i","l","d","i","n","g">>,
   <<"g","e","n","e","r","a","t","i","n","g">>}

L_Progress42 ==
  <<"P","R","O","G","R","E","S","S",":","4","2",":","D","o","i","n","g",
    " ","t","h","e"," ","t","h","i","n","g","\n">>

L_Progress10 ==
  <<"P","R","O","G","R","E","S","S",":","1","0",":","S","t","a","r","t",
    "i","n","g"," ","b","u","i","l","d"," ","p","r","o","c","e","s","s",
    ".",".",".","\n">>

L_Progress50 ==
  <<"P","R","O","G","R","E","S","S",":","5","0",":","\n">>

L_ProgressBad ==
  <<"P","R","O","G","R","E","S","S",":","a","b","c",":","d","e","f","\n">>

L_NuitkaOptions ==
  <<"N","u","i","t","k","a","-","O","p","t","i","o","n","s",":"," ","x",
    "\n">>

L_CompilingModule ==
  <<"C","o","m","p","i","l","i","n","g"," ","m","o","d","u","l","e"," ",
    "(","3"," ","o","f"," ","1","0",")","\n">>

L_CompilingModule5 ==
  <<"C","o","m","p","i","l","i","n","g"," ","m","o","d","u","l","e"," ",
    "(","5"," ","o","f"," ","1","0",")","\n">>

L_BuiltOk ==
  <<"E","x","e","c","u","t","a","b","l","e"," ","b","u","i","l","t"," ",
    "s","u","c","c","e","s","s","f","u","l","l","y","\n">>

L_Pass ==
  <<"P","A","S","S"," ","1",":"," ","7","2",".","5","%","|",BLK,BLK,BLK,
    " ","|"," ","1","7","4","/","2","4","0",","," ","m","o","d","u","l",
    "e","_","n","a","m","e","\n">>

L_Onefile ==
  <<"O","n","e","f","i","l","e"," ","P","a","y","l","o","a","d",":"," ",
    "1",".","1","%","|",BLK," ","|"," ","1","0","2","/","9","1","6","4",
    ","," ","n","u","m","p","y","\n">>

L_Percent250 ==
  <<"p","r","o","g","r","e","s","s"," ","2","5","0","%"," ","d","o","n",
    "e","\n">>

L_UsedPython ==
  <<"N","u","i","t","k","a",":","I","N","F","O",":"," ","U","s","e","d",
    " ","P","y","t","h","o","n","\n">>

L_Plain ==
  <<"h","e","l","l","o","\n">>

\* one read that returns three lines
L_Build3 ==
  <<"N","u","i","t","k","a","-","O","p","t","i","o","n","s",":"," ","x",
    "\n","C","o","m","p","i","l","i","n","g"," ","m","o","d","u","l","e",
    " ","(","3"," ","o","f"," ","1","0",")","\n","E","x","e","c","u","t",
    "a","b","l","e"," ","b","u","i","l","t"," ","s","u","c","c","e","s",
    "s","f","u","l","l","y","\n">>

\* a redraw: a carriage return inside the chunk, no newline at its end
L_AbcCrDef ==
  <<"a","b","c","\r","d","e","f">>

L_Ghi ==
  <<"g","h","i","\n">>

\* child output the reads draw from
Chunks ==
  {L_Progress42, L_Progress10, L_Progress50, L_ProgressBad,
   L_NuitkaOptions, L_CompilingModule, L_CompilingModule5, L_BuiltOk,
   L_Pass, L_Onefile, L_Percent250, L_UsedPython, L_Plain, L_Build3,
   L_AbcCrDef, L_Ghi}

RECURSIVE IntToStr(_)
\* str(n) for n >= 0
IntToStr(n) ==
  IF n < 10 THEN <<DigitChars[n + 1]>>
  ELSE IntToStr(n \div 10) \o <<DigitChars[(n % 10) + 1]>>

\* f"{float(text):.1f}" for a matched number with at most one fractional
\* digit (all that the modelled child output contains)
Format1f(m) ==
  LET frac == SubSeq(m.text, Len(m.whole) + 2, Len(m.text))
  IN  IntToStr(DigitsValue(m.whole)) \o <<".">>
        \o (IF Len(frac) = 0 THEN <<"0">> ELSE <<frac[1]>>)

RECURSIVE SplitLines(_)
\* str.splitlines(True): split after "\n", "\r" and "\r\n", keeping the ends
SplitLines(s) ==
  LET brk == {i \in 1..Len(s) : s[i] \in {"\n", "\r"}}
      i   == CHOOSE x \in brk : \A y \in brk : x <= y
      e   == IF s[i] = "\r" /\ i < Len(s) /\ s[i + 1] = "\n" THEN i + 1 ELSE i
  IN  IF Len(s) = 0 THEN <<>>
      ELSE IF brk = {} THEN <<s>>
      ELSE <<SubSeq(s, 1, e)>> \o SplitLines(From(s, e + 1))

\* ------------------------------------------------------------------------
\* The output widget and the UI slots.  g is the record of the worker's
\* locals, the progress dialog's four fields and the widget's document.
\* ------------------------------------------------------------------------

\* ConfigEditorWindow._append_plain
append_plain(doc, text) == doc \o text

\* a redraw that leaves the line under the cursor in place
replace_last_line_appends(doc, new_text) == doc \o new_text

\* ConfigEditorWindow._replace_last_line: the line under the end cursor is
\* the text after the document's last newline
replace_last_line(doc, new_text) ==
  LET nl == {i \in 1..Len(doc) : doc[i] = "\n"}
      k  == IF nl = {} THEN 0 ELSE CHOOSE x \in nl : \A y \in nl : x >= y
  IN  SubSeq(doc, 1, k) \o new_text

\* text.split("\r")[-1]
AfterLastCR(text) ==
  LET cr == {i \in 1..Len(text) : text[i] = "\r"}
  IN  IF cr = {} THEN text
      ELSE From(text, 1 + CHOOSE x \in cr : \A y \in cr : x >= y)

\* ConfigEditorWindow.append_output, as a function of the document
AppendCR(doc, cleaned) ==
  IF EndsWith(cleaned, <<"\n">>)
  THEN append_plain(replace_last_line(doc, RStripNewline(cleaned)), <<"\n">>)
  ELSE replace_last_line(doc, cleaned)
append_output(doc, text) ==
  IF Len(text) = 0 THEN doc
  ELSE IF StartsWith(Strip(text), P_PROGRESS) THEN doc
  ELSE IF \E i \in 1..Len(text) : text[i] = "\r"
       THEN AppendCR(doc, AnsiReSub(AfterLastCR(text)))
       ELSE append_plain(doc, CollapseNewlines(AnsiReSub(text)))

\* signals.output.emit(text), delivered to append_output
EmitOutput(g, text) == [g EXCEPT !.outputText = append_output(@, text)]

\* ConfigEditorWindow.update_overall_progress
update_overall_progress(g, value) == [g EXCEPT !.overall_percent = value]
\* ConfigEditorWindow.update_overall_status
update_overall_status(g, text) == [g EXCEPT !.overall_message = text]
\* ConfigEditorWindow.update_task_progress
update_task_progress(g, value) == [g EXCEPT !.task_percent = value]
\* ConfigEditorWindow.update_task_status
update_task_status(g, text) == [g EXCEPT !.task_message = text]
\* a legacy slot wired to the task bar instead of the overall bar
update_progress_asTask(g, value) == update_task_progress(g, value)
\* ConfigEditorWindow.update_progress (legacy slot)
update_progress(g, value) == update_overall_progress(g, value)
\* ConfigEditorWindow.update_status (legacy slot)
update_status(g, text) == update_overall_status(g, text)

\* signalLog records every progress value emitted, with the statement that
\* emitted it: "initial", "explicit", "bar", "simple", "reset", "marker",
\* "module"
Logged(g, sig, value, origin) ==
  [g EXCEPT !.signalLog = Append(@, <<sig, value, origin>>)]

\* signals.overall_progress.emit(value)
EmitOverallProgress(g, value, origin) ==
  update_overall_progress(Logged(g, "overall_progress", value, origin), value)
\* signals.progress.emit(value)
EmitProgress(g, value, origin) ==
  update_progress(Logged(g, "progress", value, origin), value)
\* signals.task_progress.emit(value)
EmitTaskProgress(g, value, origin) ==
  update_task_progress(Logged(g, "task_progress", value, origin), value)

\* ------------------------------------------------------------------------
\* _run_command_thread: what the worker does with one line
\* ------------------------------------------------------------------------

\* if clean_line.strip().startswith("PROGRESS:"): try: ... continue
\* TRUE when the continue is reached: the prefix is there and int(parts[1])
\* did not raise ValueError
ExplicitHandled(clean_line) ==
  /\ StartsWith(Strip(clean_line), P_PROGRESS)
  /\ ParseInt(SplitColon2(Strip(clean_line))[2]).ok

\* the body of the try: emit the legacy progress and status signals
ExplicitEmit(g, progress, message) ==
  LET Status(g1) == IF Len(message) > 0 THEN update_status(g1, message) ELSE g1
  IN  Status(EmitProgress(g, progress, "explicit"))
ExplicitParts(g, parts) ==
  ExplicitEmit(g, ParseInt(parts[2]).val,
               IF Len(parts) > 2 THEN Strip(parts[3]) ELSE <<>>)
ExplicitProgress(g, clean_line) ==
  ExplicitParts(g, SplitColon2(Strip(clean_line)))

\* the structured step: progress_bar_match
BarCounts(m) ==
  <<" ", "(">> \o IntToStr(DigitsValue(m.current)) \o <<"/">>
    \o IntToStr(DigitsValue(m.total)) \o <<")", " ", "-", " ">>
    \o Format1f(m.num) \o <<"%">>
BarStatusMsg(task_type, item_name, counts) ==
  IF Contains(Upper(task_type), S_PASS)
  THEN S_Compiling \o item_name \o counts
  ELSE IF Contains(Upper(task_type), S_ONEFILE)
            \/ Contains(Upper(task_type), S_PAYLOAD)
       THEN S_Packaging \o item_name \o counts
       ELSE task_type \o <<":", " ">> \o item_name \o counts
BarApply(g, m, task_type, item_name) ==
  EmitOutput(
    update_task_status(EmitTaskProgress(g, PercentInt(m.num), "bar"),
                       BarStatusMsg(task_type, item_name, BarCounts(m))),
    S_DebugBar \o task_type \o <<" ", "-", " ">>
      \o Format1f(m.num) \o <<"%", "\n">>)
BarStep(g, clean_line) ==
  LET Apply(m) == BarApply(g, m, Strip(m.task_type), Strip(m.name))
  IN  Apply(progress_bar_match(clean_line))

\* the bare-percentage step applies
SimpleApplies(clean_line) ==
  /\ simple_percent_match(clean_line).ok
  /\ \E k \in PercentKeywords : Contains(Lower(clean_line), k)

\* the bare-percentage step
SimpleApply(g, m, t) ==
  EmitOutput(
    update_task_status(EmitTaskProgress(g, PercentInt(m), "simple"),
      IF Len(t) > 100 THEN SubSeq(t, 1, 97) \o S_Ellipsis ELSE t),
    S_DebugSimple \o Format1f(m) \o <<"%", "\n">>)
SimpleStep(g, clean_line) ==
  SimpleApply(g, simple_percent_match(clean_line), Strip(clean_line))

\* for marker, marker_info in nuitka_markers.items():
\*     if marker.lower() in clean_line.lower(): ... break
\* index of the first marker of the table found in the line, 0 if none
MarkerHits(low) ==
  {i \in 1..Len(nuitka_markers) : Contains(low, Lower(nuitka_markers[i].marker))}
FirstMarker(hits) == IF hits = {} THEN 0 ELSE Min(hits)
MatchedMarker(clean_line) == FirstMarker(MarkerHits(Lower(clean_line)))

\* new_overall_progress = int(start + (task_progress / 100) * (end - start));
\* for every task_progress in 0..100 and every phase the float expression
\* has the value of this integer one
\* the phase's start bound left out of the sum
NewOverallProgress_withoutStart(phase, task_progress) ==
  LET phase_info == overall_phases[phase]
  IN  (task_progress * (phase_info.end - phase_info.start)) \div 100

NewOverallProgress(phase, task_progress) ==
  LET phase_info == overall_phases[phase]
  IN  phase_info.start
        + ((task_progress * (phase_info.end - phase_info.start)) \div 100)

\* a phase switch that forgets to emit the reset
PhaseUpdate_noReset(g, new_phase) ==
  IF new_phase # g.current_phase
  THEN [g EXCEPT !.current_phase = new_phase, !.last_task_progress = 0]
  ELSE g

\* new_phase != current_phase: switch phase and reset the task bar
PhaseUpdate(g, new_phase) ==
  IF new_phase # g.current_phase
  THEN [EmitTaskProgress([g EXCEPT !.current_phase = new_phase], 0, "reset")
          EXCEPT !.last_task_progress = 0]
  ELSE g

\* if new_overall_progress > last_overall_progress: ...
OverallApply(g, phase_info, new_overall_progress) ==
  IF new_overall_progress > g.last_overall_progress
  THEN [update_overall_status(
          EmitOverallProgress(g, new_overall_progress, "marker"),
          phase_info.message)
          EXCEPT !.last_overall_progress = new_overall_progress]
  ELSE g
OverallUpdate(g, marker_info) ==
  OverallApply(g, overall_phases[g.current_phase],
               NewOverallProgress(g.current_phase, marker_info.task_progress))

\* if marker_info["task_progress"] > last_task_progress: ...
TaskUpdate(g, marker_info) ==
  IF marker_info.task_progress > g.last_task_progress
  THEN [update_task_status(
          EmitTaskProgress(g, marker_info.task_progress, "marker"),
          marker_info.message)
          EXCEPT !.last_task_progress = marker_info.task_progress]
  ELSE g

\* the marker step, for the matched marker
MarkerStep(g, marker_info) ==
  TaskUpdate(OverallUpdate(PhaseUpdate(g, marker_info.phase), marker_info),
             marker_info)

\* the "N of M" step
ModuleApply(g, current_module, total_modules) ==
  IF total_modules > 0
  THEN update_task_status(
         EmitTaskProgress(g, module_percent(current_module, total_modules),
                          "module"),
         S_CompilingModule \o IntToStr(current_module)
           \o S_Of \o IntToStr(total_modules))
  ELSE g
ModuleGroups(g, m) ==
  ModuleApply(g, DigitsValue(m.current), DigitsValue(m.total))
ModuleStep(g, clean_line) == ModuleGroups(g, module_match(clean_line))

\* the classification steps after the explicit-progress check
\* if marker ... break, then the "N of M" step: both run when neither
\* percentage step set progress_updated
MarkerPart(g, mk) == IF mk # 0 THEN MarkerStep(g, nuitka_markers[mk]) ELSE g
ModulePart(g, clean_line) ==
  IF module_match(clean_line).ok THEN ModuleStep(g, clean_line) ELSE g
Classify(g, clean_line) ==
  IF progress_bar_match(clean_line).ok THEN BarStep(g, clean_line)
  ELSE IF SimpleApplies(clean_line) THEN SimpleStep(g, clean_line)
  ELSE ModulePart(MarkerPart(g, MatchedMarker(clean_line)), clean_line)

\* the body of "for line in output.splitlines(True)"
DebugEcho(g, clean_line) ==
  IF \E p \in DebugPatterns : Contains(Lower(clean_line), p)
  THEN EmitOutput(g, S_DebugDetected \o Strip(clean_line) \o <<"\n">>)
  ELSE g
Dispatch(g, clean_line) ==
  IF ExplicitHandled(clean_line) THEN ExplicitProgress(g, clean_line)
  ELSE Classify(g, clean_line)
ProcessClean(g, clean_line) ==
  Dispatch(DebugEcho([EmitOutput(g, clean_line) EXCEPT !.line_count = @ + 1],
                     clean_line),
           clean_line)
ProcessLine(g, line) == ProcessClean(g, CleanLine(line))

\* ------------------------------------------------------------------------
\* _run_command_thread, pipe branch: what the worker does with one line
\* ------------------------------------------------------------------------

\* the pipe branch's debug echo patterns
PipeDebugPatterns ==
  {<<"%">>,
   <<"c","o","m","p","i","l","i","n","g">>,
   <<"p","r","o","g","r","e","s","s">>,
   <<"d","o","n","e">>,
   <<"n","u","i","t","k","a">>}

\* Pattern 1: pass_match
PassApply(g, m) ==
  update_task_status(EmitTaskProgress(g, PercentInt(m.num), "pass"),
                     S_Compiling \o Strip(m.name) \o BarCounts(m))
PassStep(g, clean_line) == PassApply(g, pass_match(clean_line))

\* Pattern 2: [XX%]
BracketApply(g, m, task_desc) ==
  update_task_status(EmitTaskProgress(g, DigitsValue(m.whole), "bracket"),
    IF Len(task_desc) > 100 THEN SubSeq(task_desc, 1, 97) \o S_Ellipsis
    ELSE task_desc)
BracketStep(g, clean_line) ==
  BracketApply(g, bracket_percent_match(clean_line), Strip(clean_line))

\* Patterns 3 and 4: "XX% done" and "Progress: XX%", both followed by
\* re.search(r'(\d+)%', clean_line)
PercentWordApply(g, m, clean_line, origin) ==
  update_task_status(EmitTaskProgress(g, DigitsValue(m.whole), origin),
                     Strip(clean_line))
PercentWordStep(g, clean_line, origin) ==
  PercentWordApply(g, int_percent_match(clean_line), clean_line, origin)

\* the if/elif chain of the four percentage patterns, then the marker table
\* and the "N of M" step under "not progress_updated"
PipeClassify(g, clean_line) ==
  IF pass_match(clean_line).ok THEN PassStep(g, clean_line)
  ELSE IF bracket_percent_match(clean_line).ok THEN BracketStep(g, clean_line)
  ELSE IF done_search(clean_line) THEN PercentWordStep(g, clean_line, "done")
  ELSE IF progress_word_search(clean_line)
       THEN PercentWordStep(g, clean_line, "progressword")
  ELSE ModulePart(MarkerPart(g, MatchedMarker(clean_line)), clean_line)

\* the body of "for line in iter(process.stdout.readline, '')"
PipeDebugEcho(g, clean_line) ==
  IF \E p \in PipeDebugPatterns : Contains(Lower(clean_line), p)
  THEN EmitOutput(g, S_DebugDetected \o Strip(clean_line) \o <<"\n">>)
  ELSE g
PipeDispatch(g, clean_line) ==
  IF ExplicitHandled(clean_line) THEN ExplicitProgress(g, clean_line)
  ELSE PipeClassify(g, clean_line)
ProcessPipeClean(g, clean_line) ==
  PipeDispatch(
    PipeDebugEcho([EmitOutput(g, clean_line) EXCEPT !.line_count = @ + 1],
                  clean_line),
    clean_line)
ProcessPipeLine(g, line) == ProcessPipeClean(g, CleanLine(line))

\* ------------------------------------------------------------------------
\* State
\* ------------------------------------------------------------------------
VARIABLES
  current_phase,          \* worker local
  last_overall_progress,  \* worker local
  last_task_progress,     \* worker local
  line_count,             \* worker local
  overall_percent,        \* progress dialog: value given to the overall bar
  overall_message,        \* progress dialog: overall status label
  task_percent,           \* progress dialog: value given to the task bar
  task_message,           \* progress dialog: task status label
  outputText,             \* document of ui.outputTextEdit
  signalLog,              \* progress values emitted so far in this run
  pending,                \* lines of the chunk read last, not yet handled
  lastLine,               \* the line handled last
  reads,                  \* number of reads that returned text
  received,               \* the chunks read so far, in order
  workerAt,               \* "loop", "wait" (at wait()) or "done"
  exit_code,              \* <<>> while the child runs, then <<its exit code>>
  stream_open,            \* the child still holds its output open
  finished                \* the values emitted on signals.finished

\* the editor window and its build workers (config_editor_ui.py)
VARIABLES
  is_building,      \* ConfigEditorWindow.is_building
  active_process,   \* ConfigEditorWindow.active_process: 0 is None, w is the
                    \* handle of the child of worker w
  progress_dialog,  \* "none", "shown", "accepted" or "closed"
  builds,           \* number of worker threads started by run_command
  command,          \* worker -> the command it was started with
  workerPc,         \* worker -> where it is in _run_command_thread
  child,            \* worker -> "none", "alive" or "exited"
  child_exit,       \* worker -> <<>>, or <<exit code, "self" or "cancel">>
                    \* once its child has ended by itself or by cancel_build
  finishedQueue,    \* signals.finished emitted and not yet delivered:
                    \* <<worker, value>> in order of emission
  platform,         \* sys.platform: "win32" or "posix"
  winpty_loaded,    \* "winpty" in sys.modules and winpty is not None
  lastRequest       \* what became of the last build request

\* one run of cancel_build, statement by statement
VARIABLES
  cancelPc,         \* the statement cancel_build is at
  hasTerminate,     \* the registered handle has a callable terminate
  hasKill,          \* the registered handle has a callable kill
  registered,       \* cancel_build found a registered child at line 1861
  sigSteps,         \* os.killpg statements executed: <<signal, outcome>>
  polled,           \* what poll() at line 1910 saw: the child's state
  raisedAt          \* the statements of cancel_build that raised, in order

\* build_exe.py: the PTY reader thread and the consumer loop of main
VARIABLES
  readerPc,         \* where _enqueue_output is
  readerExit,       \* how the reader left its loop
  queue,            \* output_queue
  pushed,           \* every item ever put on output_queue, in order
  chunksRead,       \* reads that returned text
  consumerPc,       \* "loop" or "left"
  termAlive,        \* term.isalive()
  heartbeat_len,    \* length of the heartbeat text now on stderr
  heartbeat_idx,    \* index of the next heartbeat character
  idle_over_5,      \* (time.time() - last_output_time) > 5.0
  heartbeat_at_write \* heartbeat_len when sys.stdout.write(output_chunk)
                    \* last ran, -1 before the first chunk

\* build_exe.py: main, stage by stage
VARIABLES
  config_state,     \* the configuration file: "unreadable" (open raises),
                    \* "malformed" (no mapping comes out of it) or "ok"
  python_exists,    \* os.path.exists(python_exe)
  copy_beside,      \* build.copy_beside is a non-empty list
  installer_enabled, \* installer.enabled
  mainPc,           \* the stage main is at
  main_active,      \* build_exe.active_process: "None" or "child"
  nuitka,           \* the Nuitka child: "none", "alive" or "exited"
  nuitka_exit,      \* <<>>, or <<exit code, "self" or "forced">>
  main_return_code, \* <<>> until return_code is assigned, then <<code>>
  system_exit,      \* <<>>, or <<code>> of the SystemExit leaving main
  stages,           \* the stages entered, in order
  main_failure,     \* the stage at which main gave up, or "none"
  main_line_count   \* lines of child output handled by the read loop

\* build_exe.py: main, the PROGRESS lines it adds while relaying output
VARIABLES
  relay_line_count, \* line_count
  last_progress,    \* last_progress
  last_progress_time, \* last_progress_time, in seconds since the loop began
  relay_now,        \* time.time(), in seconds since the loop began
  last_change_time, \* when the most recent PROGRESS line was printed
  stdout,           \* what main has written to stdout, in order:
                    \* <<"output", text>> or <<"progress", value, origin>>
  relay_iterations, \* iterations of the loop so far
  last_output_time, \* last_output_time, in seconds since the loop began
  stderr            \* what the PTY loop has written to stderr, in order:
                    \* <<"clear", width>> or <<"heartbeat", index>>

\* build_exe.py: signal_handler
VARIABLES
  signal_report     \* <<>> until the handler has run, then what it did
                    \* before sys.exit: <<"no_child">>, or the call it made
                    \* on the child and "terminated" or "error"



engineVars ==
  <<current_phase, last_overall_progress, last_task_progress, line_count,
    overall_percent, overall_message, task_percent, task_message,
    outputText, signalLog, pending, lastLine, reads, received, workerAt,
    exit_code, stream_open, finished>>

guiVars ==
  <<is_building, active_process, progress_dialog, builds, command, workerPc,
    child, child_exit, finishedQueue, platform, winpty_loaded, lastRequest>>

cancelVars ==
  <<cancelPc, hasTerminate, hasKill, registered, sigSteps, polled, raisedAt>>

ptyVars ==
  <<readerPc, readerExit, queue, pushed, chunksRead, consumerPc, termAlive,
    heartbeat_len, heartbeat_idx, idle_over_5, heartbeat_at_write>>

\* build_exe.main
mainVars ==
  <<config_state, python_exists, copy_beside, installer_enabled, mainPc,
    main_active, nuitka, nuitka_exit, main_return_code, system_exit, stages,
    main_failure, main_line_count>>

\* build_exe.main: the PROGRESS lines added to the child's output
relayVars ==
  <<relay_line_count, last_progress, last_progress_time, relay_now,
    last_change_time, stdout, relay_iterations, last_output_time, stderr>>

\* build_exe.signal_handler
signalVars == <<signal_report>>

vars ==
  <<engineVars, guiVars, cancelVars, ptyVars, mainVars, relayVars,
    signalVars>>

Workers == 1..MaxBuilds

\* ConfigEditorWindow.__init__: no build requested yet
GuiIdle ==
  /\ is_building = FALSE
  /\ active_process = 0
  /\ progress_dialog = "none"
  /\ builds = 0
  /\ command = [w \in Workers |-> "none"]
  /\ workerPc = [w \in Workers |-> "idle"]
  /\ child = [w \in Workers |-> "none"]
  /\ child_exit = [w \in Workers |-> <<>>]
  /\ finishedQueue = <<>>
  /\ lastRequest = "none"

\* the interpreter the editor runs in: winpty can only be loaded on win32
PlatformInit ==
  /\ platform \in {"win32", "posix"}
  /\ winpty_loaded \in BOOLEAN
  /\ platform = "posix" => ~winpty_loaded

\* cancel_build is not running
CancelIdle ==
  /\ cancelPc = "idle"
  /\ hasTerminate = FALSE
  /\ hasKill = FALSE
  /\ registered = FALSE
  /\ sigSteps = <<>>
  /\ polled = "none"
  /\ raisedAt = <<>>

\* build_exe.main has spawned the PTY child and started the reader thread
PtyInit ==
  /\ readerPc = "read"
  /\ readerExit = "none"
  /\ queue = <<>>
  /\ pushed = <<>>
  /\ chunksRead = 0
  /\ consumerPc = "loop"
  /\ termAlive = TRUE
  /\ heartbeat_len = 0
  /\ heartbeat_idx = 0
  /\ idle_over_5 = FALSE
  /\ heartbeat_at_write = -1

\* build_exe.main is not running
MainIdle ==
  /\ config_state = "ok"
  /\ python_exists = TRUE
  /\ copy_beside = FALSE
  /\ installer_enabled = FALSE
  /\ mainPc = "idle"
  /\ main_active = "None"
  /\ nuitka = "none"
  /\ nuitka_exit = <<>>
  /\ main_return_code = <<>>
  /\ system_exit = <<>>
  /\ stages = <<>>
  /\ main_failure = "none"
  /\ main_line_count = 0

\* build_exe.main has printed "PROGRESS:10:Starting build process..." and is
\* about to enter its read loop
RelayInit ==
  /\ relay_line_count = 0
  /\ last_progress = 10
  /\ last_progress_time = 0
  /\ relay_now = 0
  /\ last_change_time = 0
  /\ stdout = <<(<<"progress", 10, "start">>)>>
  /\ relay_iterations = 0
  /\ last_output_time = 0
  /\ stderr = <<>>

\* no termination signal has been received
SignalIdle == signal_report = <<>>

\* the record the worker and slot operators work on
EngineRec ==
  [current_phase |-> current_phase,
   last_overall_progress |-> last_overall_progress,
   last_task_progress |-> last_task_progress,
   line_count |-> line_count,
   overall_percent |-> overall_percent,
   overall_message |-> overall_message,
   task_percent |-> task_percent,
   task_message |-> task_message,
   outputText |-> outputText,
   signalLog |-> signalLog]

SetEngine(g) ==
  /\ current_phase' = g.current_phase
  /\ last_overall_progress' = g.last_overall_progress
  /\ last_task_progress' = g.last_task_progress
  /\ line_count' = g.line_count
  /\ overall_percent' = g.overall_percent
  /\ overall_message' = g.overall_message
  /\ task_percent' = g.task_percent
  /\ task_message' = g.task_message
  /\ outputText' = g.outputText
  /\ signalLog' = g.signalLog

\* the worker after "Set initial progress" (the four emits before the loop)
EngineInit ==
  /\ current_phase = "initialization"
  /\ last_overall_progress = 0
  /\ last_task_progress = 0
  /\ line_count = 0
  /\ overall_percent = overall_phases["initialization"].start
  /\ overall_message = overall_phases["initialization"].message
  /\ task_percent = 0
  /\ task_message = S_WaitingForNuitka
  /\ outputText = <<>>
  /\ signalLog = << <<"overall_progress", 0, "initial">>,
                    <<"task_progress", 0, "initial">> >>
  /\ pending = <<>>
  /\ lastLine = <<>>
  /\ reads = 0
  /\ received = <<>>
  /\ workerAt = "loop"
  /\ exit_code = <<>>
  /\ stream_open = TRUE
  /\ finished = <<>>

\* the worker takes the PTY branch (line 1098)
UsePty == platform = "win32" /\ winpty_loaded

\* universal_newlines=True: a line end "\r\n" or "\r" reaches readline as "\n"
TranslateEnd(line) ==
  IF EndsWith(line, <<"\r", "\n">>)
  THEN SubSeq(line, 1, Len(line) - 2) \o <<"\n">>
  ELSE IF EndsWith(line, <<"\r">>)
       THEN SubSeq(line, 1, Len(line) - 1) \o <<"\n">>
       ELSE line

\* the text of the sequence of lines
RECURSIVE Joined(_)
Joined(lines) ==
  IF lines = <<>> THEN <<>> ELSE Head(lines) \o Joined(Tail(lines))

\* pipe branch: readline returns the head of the buffered text once its line
\* end is known (a newline, or a carriage return with a character after it),
\* or when the stream has ended
HeadComplete ==
  /\ pending # <<>>
  /\ \/ Len(pending) > 1
     \/ EndsWith(Head(pending), <<"\n">>)
     \/ ~stream_open

\* PTY branch: output = term.read(); for line in output.splitlines(True).
\* Pipe branch: the child's write reaches the buffer behind
\* process.stdout.readline.
ReadOutput(chunk) ==
  /\ workerAt = "loop"
  /\ IF UsePty THEN pending = <<>> ELSE ~HeadComplete /\ stream_open
  /\ reads < MaxReads
  /\ reads' = reads + 1
  /\ received' = Append(received, chunk)
  /\ pending' = IF UsePty THEN SplitLines(chunk)
                ELSE SplitLines(Joined(pending) \o chunk)
  /\ UNCHANGED <<current_phase, last_overall_progress, last_task_progress,
                 line_count, overall_percent, overall_message, task_percent,
                 task_message, outputText, signalLog, lastLine, workerAt,
                 exit_code, stream_open, finished>>
  /\ UNCHANGED <<guiVars, cancelVars, ptyVars, mainVars, relayVars, signalVars>>

\* one iteration of the for loop over the lines: of the chunk (PTY branch),
\* of the stream (pipe branch).  PTY branch: after the last line of the
\* chunk, "if not term.isalive(): break".
HandleLine ==
  /\ workerAt = "loop"
  /\ pending # <<>>
  /\ UsePty \/ HeadComplete
  /\ SetEngine(IF UsePty THEN ProcessLine(EngineRec, Head(pending))
               ELSE ProcessPipeLine(EngineRec, TranslateEnd(Head(pending))))
  /\ lastLine' = IF UsePty THEN Head(pending) ELSE TranslateEnd(Head(pending))
  /\ pending' = Tail(pending)
  /\ workerAt' = IF UsePty /\ Tail(pending) = <<>> /\ exit_code # <<>>
                 THEN "wait" ELSE "loop"
  /\ UNCHANGED <<reads, received, exit_code, stream_open, finished>>
  /\ UNCHANGED <<guiVars, cancelVars, ptyVars, mainVars, relayVars, signalVars>>

EngineNext ==
  \/ \E chunk \in Chunks : ReadOutput(chunk)
  \/ HandleLine

\* the PTY branch of the worker: win32 with winpty loaded
EngineSpecInit ==
  /\ EngineInit /\ GuiIdle /\ CancelIdle /\ PtyInit /\ MainIdle /\ RelayInit /\ SignalIdle
  /\ platform = "win32" /\ winpty_loaded = TRUE

EngineSpec == EngineSpecInit /\ [][EngineNext]_vars

\* the exit codes the child ends with
ExitCodes == {0, 1, 2}

\* the child ends: by itself, with whatever it has written still to be read
ChildEnds ==
  /\ exit_code = <<>>
  /\ \E code \in ExitCodes : exit_code' = <<code>>
  /\ stream_open' = FALSE
  /\ UNCHANGED <<current_phase, last_overall_progress, last_task_progress,
                 line_count, overall_percent, overall_message, task_percent,
                 task_message, outputText, signalLog, pending, lastLine,
                 reads, received, workerAt, finished>>
  /\ UNCHANGED <<guiVars, cancelVars, ptyVars, mainVars, relayVars, signalVars>>

\* the child closes its output and goes on running
ChildClosesOutput ==
  /\ exit_code = <<>>
  /\ stream_open
  /\ stream_open' = FALSE
  /\ UNCHANGED <<current_phase, last_overall_progress, last_task_progress,
                 line_count, overall_percent, overall_message, task_percent,
                 task_message, outputText, signalLog, pending, lastLine,
                 reads, received, workerAt, exit_code, finished>>
  /\ UNCHANGED <<guiVars, cancelVars, ptyVars, mainVars, relayVars, signalVars>>

\* the read loop is left with no line pending.  raised: term.read() of the
\* PTY branch raised and the handler emits the error text (its exception
\* text is left empty here).  Otherwise: term.read() returned nothing and
\* the child is not alive (PTY branch), readline returned "" at the end of
\* the stream (pipe branch).
LoopLeft(raised) ==
  /\ workerAt = "loop"
  /\ pending = <<>>
  /\ IF raised THEN UsePty
     ELSE IF UsePty THEN exit_code # <<>> ELSE ~stream_open
  /\ outputText' = IF raised
                   THEN append_output(outputText, S_ErrorReading \o <<"\n">>)
                   ELSE outputText
  /\ workerAt' = "wait"
  /\ UNCHANGED <<current_phase, last_overall_progress, last_task_progress,
                 line_count, overall_percent, overall_message, task_percent,
                 task_message, signalLog, pending, lastLine, reads, received,
                 exit_code, stream_open, finished>>
  /\ UNCHANGED <<guiVars, cancelVars, ptyVars, mainVars, relayVars, signalVars>>

\* a report that takes every return code for a failure
ReportReturnCode_alwaysFailed(g, return_code) ==
  EmitOutput(g, S_CommandFailed \o IntToStr(return_code) \o <<"\n">>)

\* "Check return code": the failure line, or the success line and the
\* legacy progress 100 with its status
ReportReturnCode(g, return_code) ==
  IF return_code # 0
  THEN EmitOutput(g, S_CommandFailed \o IntToStr(return_code) \o <<"\n">>)
  ELSE update_status(
         EmitProgress(EmitOutput(g, S_CommandCompleted), 100, "final"),
         S_BuildCompleted)

\* return_code = wait(): returns once the child has ended; then the report
\* and signals.finished.emit(0 if return_code == 0 else 1)
WorkerReport ==
  /\ workerAt = "wait"
  /\ exit_code # <<>>
  /\ SetEngine(ReportReturnCode(EngineRec, exit_code[1]))
  /\ finished' = Append(finished, IF exit_code[1] = 0 THEN 0 ELSE 1)
  /\ workerAt' = "done"
  /\ UNCHANGED <<pending, lastLine, reads, received, exit_code, stream_open>>
  /\ UNCHANGED <<guiVars, cancelVars, ptyVars, mainVars, relayVars, signalVars>>

\* child output the reads of a whole run draw from
RunChunks ==
  {L_Build3, L_NuitkaOptions, L_CompilingModule, L_BuiltOk, L_Progress42,
   L_Pass}

RunNext ==
  \/ \E chunk \in RunChunks : ReadOutput(chunk)
  \/ HandleLine
  \/ ChildEnds
  \/ ChildClosesOutput
  \/ \E raised \in BOOLEAN : LoopLeft(raised)
  \/ WorkerReport

\* one build run of the worker on either branch, from the initial progress
\* to signals.finished
RunSpecInit ==
  /\ EngineInit /\ GuiIdle /\ CancelIdle /\ PtyInit /\ MainIdle /\ RelayInit /\ SignalIdle
  /\ PlatformInit

RunSpec == RunSpecInit /\ [][RunNext]_vars

\* ENABLED <<HandleLine>>_vars, written out from the guard of HandleLine
\* (every HandleLine step changes pending)
HandleLineEnabled ==
  workerAt = "loop" /\ pending # <<>> /\ (UsePty \/ HeadComplete)

\* the worker thread is scheduled: it handles the lines it has, sees the end
\* of the stream, and comes back from wait() once the child has ended.
\* Nothing obliges the child to write, to close its output or to end, and
\* nothing obliges a read to fail.  The last conjunct is WF_vars(HandleLine)
\* with its ENABLED written out.
FairRunSpec ==
  /\ RunSpec
  /\ WF_vars(LoopLeft(FALSE))
  /\ WF_vars(WorkerReport)
  /\ ([]<>~HandleLineEnabled) \/ ([]<><<HandleLine>>_vars)

\* the pipe branch of the worker: any platform without a loaded winpty
PipeEngineSpecInit ==
  /\ EngineInit /\ GuiIdle /\ CancelIdle /\ PtyInit /\ MainIdle /\ RelayInit /\ SignalIdle
  /\ PlatformInit /\ ~UsePty

PipeEngineSpec == PipeEngineSpecInit /\ [][EngineNext]_vars


\* ------------------------------------------------------------------------
\* Properties of the progress engine (EngineSpec)
\* ------------------------------------------------------------------------

\* the overall values delivered to the progress dialog so far, in order
OverallDelivered ==
  SelectSeq(signalLog, LAMBDA e : e[1] \in {"overall_progress", "progress"})

\* the task values delivered to the progress dialog so far, in order
TaskDelivered == SelectSeq(signalLog, LAMBDA e : e[1] = "task_progress")

\* the wire format PROGRESS:<int>:<free text>, read off the line itself:
\* the prefix, a run of digits, a colon, then the free text up to the line end
WireDigitsEnd(line) == RunEnd(line, Len(P_PROGRESS) + 1, IsDigit)
IsWireLine(line) ==
  /\ StartsWith(line, P_PROGRESS)
  /\ WireDigitsEnd(line) > Len(P_PROGRESS) + 1
  /\ WireDigitsEnd(line) <= Len(line)
  /\ line[WireDigitsEnd(line)] = ":"
WireInt(line) ==
  DigitsValue(SubSeq(line, Len(P_PROGRESS) + 1, WireDigitsEnd(line) - 1))
\* the free text, without the line end and surrounding blanks
WireText(line) == Strip(From(line, WireDigitsEnd(line) + 1))
\* the line as the child printed it, without its line end
WireBody(line) == Strip(line)

\* C1: the overall_percent values delivered during one run never decrease.
C1_OverallNonDecreasing ==
  \A i, j \in DOMAIN OverallDelivered :
    i < j => OverallDelivered[i][2] <= OverallDelivered[j][2]

\* C7: once a protocol line PROGRESS:<int>:<free text> has been handled,
\* overall_percent is that integer and overall_message is the free text.
C7_ExplicitProgressApplied ==
  (pending = <<>> /\ IsWireLine(lastLine)) =>
     /\ overall_percent = WireInt(lastLine)
     /\ (WireText(lastLine) # <<>> => overall_message = WireText(lastLine))

C7_Witness ==
  /\ pending = <<>>
  /\ lastLine = L_Progress42
  /\ overall_percent = 42
  /\ overall_message = <<"D","o","i","n","g"," ","t","h","e"," ","t","h","i","n","g">>
  /\ Len(OverallDelivered) >= 3

\* C8: no protocol line received from the child is part of the text of the
\* output widget.
C8_ProtocolLineNeverDisplayed ==
  \A c \in Chunks : \A i \in DOMAIN SplitLines(c) :
    IsWireLine(SplitLines(c)[i]) =>
      ~Contains(outputText, WireBody(SplitLines(c)[i]))

\* the progress values emitted by the step now being taken
NewEvents == SubSeq(signalLog', Len(signalLog) + 1, Len(signalLog'))

\* the marker table is consulted for the line and a marker is found in it
MarkerMatched(clean_line) ==
  /\ ~ExplicitHandled(clean_line)
  /\ ~progress_bar_match(clean_line).ok
  /\ ~SimpleApplies(clean_line)
  /\ MatchedMarker(clean_line) # 0

\* C9: handling a line emits the task reset (task_percent 0) exactly once
\* when the line's matched marker belongs to a phase other than the current
\* one, and not at all otherwise; the phase changes in exactly those steps,
\* and the reset comes before the marker's own task progress.
C9_ResetOncePerPhaseTransition ==
  [][pending # <<>> =>
       LET clean_line == CleanLine(Head(pending))
           resets == {i \in DOMAIN NewEvents : NewEvents[i][3] = "reset"}
           differs ==
             /\ MarkerMatched(clean_line)
             /\ nuitka_markers[MatchedMarker(clean_line)].phase # current_phase
       IN  /\ Cardinality(resets) = IF differs THEN 1 ELSE 0
           /\ differs <=> (current_phase' # current_phase)
           /\ \A i \in resets :
                /\ NewEvents[i] = <<"task_progress", 0, "reset">>
                /\ \A j \in DOMAIN NewEvents :
                     (NewEvents[j][1] = "task_progress"
                        /\ NewEvents[j][3] = "marker") => i < j
                /\ \E j \in DOMAIN NewEvents :
                     /\ j > i
                     /\ NewEvents[j][1] = "task_progress"
                     /\ NewEvents[j][3] = "marker"
                     /\ NewEvents[j][2] =
                          nuitka_markers[MatchedMarker(clean_line)].task_progress
  ]_vars

C9_Witness ==
  /\ pending = <<>>
  /\ lastLine = L_CompilingModule
  /\ current_phase = "compilation"
  /\ \E i \in DOMAIN signalLog :
       /\ signalLog[i] = <<"task_progress", 0, "reset">>
       /\ i + 2 <= Len(signalLog)
       /\ signalLog[i + 2] = <<"task_progress", 30, "marker">>
  /\ Cardinality({i \in DOMAIN signalLog : signalLog[i][3] = "reset"}) = 2

\* C10: every task_percent value delivered to the progress dialog lies in
\* 0..100.
C10_TaskPercentInRange ==
  \A i \in DOMAIN TaskDelivered :
    TaskDelivered[i][2] >= 0 /\ TaskDelivered[i][2] <= 100

\* a line of the structured form "<label>: <float>%...| <cur>/<total>, <name>"
\* that is not a protocol line
StructuredLine(line) ==
  /\ line # <<>>
  /\ ~StartsWith(Strip(line), P_PROGRESS)
  /\ progress_bar_match(CleanLine(line)).ok

\* the label, counts and name of a structured line
StructuredLabel(line) == Upper(progress_bar_match(CleanLine(line)).task_type)
StructuredCounts(line) ==
  IntToStr(DigitsValue(progress_bar_match(CleanLine(line)).current))
    \o <<"/">>
    \o IntToStr(DigitsValue(progress_bar_match(CleanLine(line)).total))
StructuredName(line) == Strip(progress_bar_match(CleanLine(line)).name)

\* C11: once a structured line has been handled, task_percent is the integer
\* part of its percentage, and the task message contains the name and
\* "<cur>/<total>" and begins with "Compiling" for a PASS label, with
\* "Packaging" for an onefile or payload label.
C11_StructuredLineSetsTask ==
  StructuredLine(lastLine) =>
    /\ task_percent = PercentInt(progress_bar_match(CleanLine(lastLine)).num)
    /\ Contains(task_message, StructuredName(lastLine))
    /\ Contains(task_message, StructuredCounts(lastLine))
    /\ Contains(StructuredLabel(lastLine), S_PASS)
         => StartsWith(task_message, S_Compiling)
    /\ (/\ ~Contains(StructuredLabel(lastLine), S_PASS)
        /\ \/ Contains(StructuredLabel(lastLine), S_ONEFILE)
           \/ Contains(StructuredLabel(lastLine), S_PAYLOAD))
         => StartsWith(task_message, S_Packaging)

\* the structured lines do what C11 says on either branch when the label is
\* a PASS label
C11_PassLineHandled ==
  /\ lastLine = L_Pass
  /\ task_percent = 72
  /\ StartsWith(task_message, S_Compiling)
  /\ Contains(task_message, <<"m","o","d","u","l","e","_","n","a","m","e">>)
  /\ Contains(task_message, <<"1","7","4","/","2","4","0">>)

\* the display: the text up to and including the last newline, and the
\* partial line after it
DisplayBody(doc) ==
  SubSeq(doc, 1, Max({0} \cup {i \in 1..Len(doc) : doc[i] = "\n"}))
DisplayLastLine(doc) == From(doc, Len(DisplayBody(doc)) + 1)

\* a line that reaches the widget as it is: no protocol prefix, no escape
\* sequence, nothing the debug echo reacts to
PlainForDisplay(line) ==
  /\ ~StartsWith(Strip(line), P_PROGRESS)
  /\ \A i \in 1..Len(line) : line[i] # ESC
  /\ \A p \in DebugPatterns : ~Contains(Lower(line), p)

\* C13: in the PTY branch a piece of a chunk that holds a carriage return and
\* does not end in a newline replaces the partial display line with the
\* text after its last carriage return and leaves the lines above alone; a
\* piece without a carriage return is appended; and the chunks "abc\rdef",
\* "ghi\n" leave exactly the one line "defghi".
C13_CarriageReturnRedraw ==
  /\ [][(pending # <<>> /\ PlainForDisplay(Head(pending))
           /\ Contains(Head(pending), <<"\r">>)
           /\ ~EndsWith(Head(pending), <<"\n">>))
          => /\ DisplayBody(outputText') = DisplayBody(outputText)
             /\ DisplayLastLine(outputText') = AfterLastCR(Head(pending))]_vars
  /\ [][(pending # <<>> /\ PlainForDisplay(Head(pending))
           /\ ~Contains(Head(pending), <<"\r">>))
          => outputText' = outputText \o Head(pending)]_vars
  /\ []((received = <<L_AbcCrDef, L_Ghi>> /\ pending = <<>>)
          => outputText = <<"d","e","f","g","h","i","\n">>)
  /\ []((received = <<L_AbcCrDef, L_AbcCrDef>> /\ pending = <<>>)
          => outputText = <<"d","e","f">>)

C13_Witness ==
  /\ received = <<L_AbcCrDef, L_Ghi>>
  /\ pending = <<>>
  /\ lastLine = L_Ghi
  /\ outputText = <<"d","e","f","g","h","i","\n">>

\* C14: when the child has printed "Nuitka-Options: x", "Compiling module
\* (3 of 10)" and "Executable built successfully" and all of it has been
\* handled, the last overall_percent delivered is the upper bound of the
\* finalization phase; and a run whose child exits with code 0 ends with
\* that value delivered last and with signals.finished carrying 0.
C14_SuccessfulRunEndsAt100 ==
  /\ (received = <<L_Build3>> /\ pending = <<>>)
       => /\ overall_percent = overall_phases["finalization"].end
          /\ OverallDelivered[Len(OverallDelivered)][2] = 100
  /\ (workerAt = "done" /\ exit_code = <<0>>)
       => /\ finished = <<0>>
          /\ overall_percent = overall_phases["finalization"].end
          /\ OverallDelivered[Len(OverallDelivered)][2] = 100

C14_Witness ==
  /\ received = <<L_Build3>>
  /\ lastLine = L_BuiltOk
  /\ current_phase = "finalization"
  /\ workerAt = "done"
  /\ exit_code = <<0>>
  /\ finished = <<0>>
  /\ overall_percent = 100
  /\ Len(OverallDelivered) >= 4

\* C15: every build run reaches the state in which its result has been
\* reported on signals.finished, whatever the child does.
C15_RunReachesFinalResult == <>(workerAt = "done" /\ finished # <<>>)

\* the child closed its output and went on running: the worker is in wait()
C15_BlockedInWait ==
  /\ ~UsePty
  /\ workerAt = "wait"
  /\ exit_code = <<>>
  /\ ~stream_open

\* the classification step a progress value was emitted by: (a) structured
\* percentage, (b) bare percentage, (c) marker table, (d) "N of M"
StepOf(origin) ==
  CASE origin \in {"bar", "pass"} -> "a"
    [] origin \in {"simple", "bracket", "done", "progressword"} -> "b"
    [] origin \in {"reset", "marker"} -> "c"
    [] origin = "module" -> "d"
    [] OTHER -> "none"

\* the classification steps that emitted progress in the step now being taken
StepsApplied ==
  {StepOf(NewEvents[i][3]) : i \in DOMAIN NewEvents} \ {"none"}

\* C20: handling one output line lets at most one of the classification
\* steps (a) structured percentage, (b) bare percentage, (c) marker table,
\* (d) "N of M" emit progress values; a line handled by the marker step gets
\* nothing from the "N of M" step.
C20_OneStepPerLine == [][Cardinality(StepsApplied) <= 1]_vars

\* "Compiling module (5 of 10)" has been handled: the marker step set the
\* task progress to 30 and the "N of M" step then set it to 50
C20_ModuleAfterMarker ==
  /\ pending = <<>>
  /\ lastLine = L_CompilingModule5
  /\ task_percent = 50
  /\ \E i \in DOMAIN signalLog :
       /\ signalLog[i] = <<"task_progress", 30, "marker">>
       /\ i < Len(signalLog)
       /\ signalLog[i + 1] = <<"task_progress", 50, "module">>

\* C21: handling a structured percentage line that leaves the phase as it
\* is does not lower the task_percent shown.
C21_StructuredNeverLowersTask ==
  [][(/\ workerAt = "loop"
      /\ pending # <<>>
      /\ StructuredLine(Head(pending))
      /\ current_phase' = current_phase)
       => task_percent' >= task_percent]_vars

\* a structured line with 1.1% has been handled after one with 72.5% in the
\* same phase, and the task bar went from 72 down to 1
C21_TaskLoweredInPhase ==
  /\ pending = <<>>
  /\ lastLine = L_Onefile
  /\ task_percent = 1
  /\ current_phase = "initialization"
  /\ \E i \in DOMAIN signalLog :
       /\ signalLog[i] = <<"task_progress", 72, "bar">>
       /\ i < Len(signalLog)
       /\ signalLog[i + 1] = <<"task_progress", 1, "bar">>

\* the phases in the order overall_phases lists them
PhaseOrder ==
  <<"initialization", "nuitka_setup", "compilation", "packaging",
    "finalization">>

PhaseIndex(phase) == CHOOSE i \in DOMAIN PhaseOrder : PhaseOrder[i] = phase

\* the line now handled matches a marker of a phase before the current one
LateMarker ==
  /\ workerAt = "loop"
  /\ pending # <<>>
  /\ MarkerMatched(CleanLine(Head(pending)))
  /\ PhaseIndex(nuitka_markers[MatchedMarker(CleanLine(Head(pending)))].phase)
       < PhaseIndex(current_phase)

\* C22: no step moves current_phase to an earlier phase, and handling a
\* line whose marker belongs to an earlier phase emits no task reset.
C22_PhaseNeverGoesBack ==
  [][/\ PhaseIndex(current_phase') >= PhaseIndex(current_phase)
     /\ LateMarker =>
          \A i \in DOMAIN NewEvents : NewEvents[i][3] # "reset"]_vars

\* "Nuitka-Options: x" has been handled after "Compiling module (3 of 10)":
\* the phase is back at nuitka_setup and the task bar was reset
C22_PhaseWentBack ==
  /\ received = <<L_CompilingModule, L_NuitkaOptions>>
  /\ pending = <<>>
  /\ current_phase = "nuitka_setup"
  /\ \E i, j \in DOMAIN signalLog :
       /\ i < j
       /\ signalLog[i] = <<"task_progress", 30, "marker">>
       /\ signalLog[j] = <<"task_progress", 0, "reset">>

\* the marker the line now handled matches
MarkerInfoNow == nuitka_markers[MatchedMarker(CleanLine(Head(pending)))]

\* n is the integer part of start + (task_progress / 100) * (end - start)
\* for the phase of marker_info
IsCandidate(n, marker_info) ==
  LET phase_info == overall_phases[marker_info.phase]
      scaled == 100 * phase_info.start
                  + marker_info.task_progress
                      * (phase_info.end - phase_info.start)
  IN  n * 100 <= scaled /\ scaled < (n + 1) * 100

\* the overall values the marker step emits in the step now being taken
MarkerOverallNow ==
  SelectSeq(NewEvents,
            LAMBDA e : e[1] = "overall_progress" /\ e[3] = "marker")

\* C23: when the line handled matches a marker, the candidate overall value
\* is the integer part of start + (task_progress / 100) * (end - start) of
\* the marker's phase and lies between that phase's bounds; it is delivered,
\* once, and becomes the last marker-derived value exactly when it is
\* greater than the last marker-derived value, and otherwise nothing is
\* delivered and that value stays.
C23_MarkerOverallCandidate ==
  [][(/\ workerAt = "loop"
      /\ pending # <<>>
      /\ MarkerMatched(CleanLine(Head(pending))))
       => \E n \in 0..100 :
            /\ IsCandidate(n, MarkerInfoNow)
            /\ n >= overall_phases[MarkerInfoNow.phase].start
            /\ n <= overall_phases[MarkerInfoNow.phase].end
            /\ IF n > last_overall_progress
               THEN /\ MarkerOverallNow = <<(<<"overall_progress", n, "marker">>)>>
                    /\ last_overall_progress' = n
                    /\ overall_percent' = n
               ELSE /\ MarkerOverallNow = <<>>
                    /\ last_overall_progress' = last_overall_progress
                    /\ overall_percent' = overall_percent]_vars

\* "Compiling module (3 of 10)" has been handled as the first line: the
\* candidate 20 + 30% of 50 = 35 was delivered; and a marker line has been
\* handled whose candidate was not greater, and nothing was delivered for it
C23_Witness ==
  /\ pending = <<>>
  /\ received = <<L_CompilingModule, L_NuitkaOptions>>
  /\ last_overall_progress = 35
  /\ overall_percent = 35
  /\ Len(SelectSeq(signalLog, LAMBDA e : e[1] = "overall_progress"
                                          /\ e[3] = "marker")) = 1

\* ------------------------------------------------------------------------
\* The editor window: build requests, workers, finish and cancel
\* (config_editor_ui.py).  What the handlers write to the output widget is
\* the subject of the progress engine above and is left out here.
\* ------------------------------------------------------------------------

\* run_command: show a new progress dialog and start the worker thread
run_command(cmd) ==
  /\ progress_dialog' = "shown"
  /\ builds' = builds + 1
  /\ command' = [command EXCEPT ![builds + 1] = cmd]
  /\ workerPc' = [workerPc EXCEPT ![builds + 1] = "start"]

\* build_executable / build_installer: refuse while is_building
BuildRequest(cmd) ==
  /\ IF is_building
     THEN /\ lastRequest' = "rejected"
          /\ UNCHANGED <<is_building, progress_dialog, builds, command,
                         workerPc>>
     ELSE /\ builds < MaxBuilds
          /\ is_building' = TRUE
          /\ run_command(cmd)
          /\ lastRequest' = "accepted"
  /\ UNCHANGED <<active_process, child, child_exit, finishedQueue, platform,
                 winpty_loaded>>
  /\ UNCHANGED <<engineVars, cancelVars, ptyVars, mainVars, relayVars, signalVars>>

build_executable == BuildRequest("build-exe")

build_installer == BuildRequest("build-installer")

\* clear_output: clears the widget and resets the building flag
clear_output ==
  /\ is_building' = FALSE
  /\ UNCHANGED <<active_process, progress_dialog, builds, command, workerPc,
                 child, child_exit, finishedQueue, platform, winpty_loaded, lastRequest>>
  /\ UNCHANGED <<engineVars, cancelVars, ptyVars, mainVars, relayVars, signalVars>>

\* command_finished, the slot of signals.finished
command_finished ==
  /\ finishedQueue # <<>>
  /\ finishedQueue' = Tail(finishedQueue)
  /\ progress_dialog' =
       IF progress_dialog # "none" THEN "accepted" ELSE progress_dialog
  /\ active_process' = 0
  /\ is_building' = FALSE
  /\ UNCHANGED <<builds, command, workerPc, child, child_exit, platform, winpty_loaded,
                 lastRequest>>
  /\ UNCHANGED <<engineVars, cancelVars, ptyVars, mainVars, relayVars, signalVars>>

\* the exit codes of a child ended by cancel_build: Popen.kill() makes it
\* -SIGKILL on POSIX, TerminateProcess makes it 1 on Windows
KillCodes == {-9, 1}

\* the value signals.finished carries: 0 if return_code == 0 else 1
FinishedValue(return_code) == IF return_code = 0 THEN 0 ELSE 1

\* the registered child is killed; a child that had ended keeps its code
Killed ==
  /\ child' = [child EXCEPT ![active_process] = "exited"]
  /\ IF child[active_process] = "alive"
     THEN \E code \in KillCodes :
            child_exit' = [child_exit EXCEPT ![active_process] = <<code, "cancel">>]
     ELSE UNCHANGED child_exit

\* cancel_build with the handles the workers register: PtyProcess goes to
\* terminate(force=True), Popen to kill(); the call returns, and the child
\* is gone, or it raises and the outer handler clears the reference
cancel_build ==
  /\ is_building
  /\ IF active_process # 0
     THEN \E outcome \in {"returned", "raised"} :
            /\ IF outcome = "returned" THEN Killed
               ELSE UNCHANGED <<child, child_exit>>
            /\ progress_dialog' =
                 IF outcome = "returned" /\ progress_dialog # "none"
                 THEN "closed" ELSE progress_dialog
            /\ active_process' = 0
     ELSE UNCHANGED <<child, child_exit, progress_dialog, active_process>>
  /\ is_building' = FALSE
  /\ UNCHANGED <<builds, command, workerPc, finishedQueue, platform,
                 winpty_loaded, lastRequest>>
  /\ UNCHANGED <<engineVars, cancelVars, ptyVars, mainVars, relayVars, signalVars>>

\* what a worker step leaves alone besides what it names
WorkerFrame ==
  /\ UNCHANGED <<progress_dialog, builds, command, platform, winpty_loaded,
                 lastRequest>>
  /\ UNCHANGED <<engineVars, cancelVars, ptyVars, mainVars, relayVars, signalVars>>

Goto(w, pc) == workerPc' = [workerPc EXCEPT ![w] = pc]

\* _run_command_thread up to "if command == 'build-exe'"
WorkerPrepare(w) ==
  /\ workerPc[w] = "start"
  /\ Goto(w, IF command[w] = "build-exe" THEN "spawn" ELSE "unknown")
  /\ UNCHANGED <<is_building, active_process, child, child_exit, finishedQueue>>
  /\ WorkerFrame

\* else: "Unknown command", signals.finished.emit(1)
WorkerUnknown(w) ==
  /\ workerPc[w] = "unknown"
  /\ finishedQueue' = Append(finishedQueue, <<w, 1>>)
  /\ Goto(w, "finally")
  /\ UNCHANGED <<is_building, active_process, child, child_exit>>
  /\ WorkerFrame

\* winpty.PtyProcess.spawn / subprocess.Popen: the child runs, or the call
\* raises into the handler of line 1493
WorkerSpawn(w) ==
  /\ workerPc[w] = "spawn"
  /\ \/ /\ child' = [child EXCEPT ![w] = "alive"]
        /\ UNCHANGED child_exit
        /\ Goto(w, "register")
     \/ /\ Goto(w, "handler")
        /\ UNCHANGED <<child, child_exit>>
  /\ UNCHANGED <<is_building, active_process, finishedQueue>>
  /\ WorkerFrame

\* self.active_process = term / process
WorkerRegister(w) ==
  /\ workerPc[w] = "register"
  /\ active_process' = w
  /\ Goto(w, "loop")
  /\ UNCHANGED <<is_building, child, child_exit, finishedQueue>>
  /\ WorkerFrame

\* the cancel check of the read loop: the reference is None, break
WorkerSeesCancel(w) ==
  /\ workerPc[w] = "loop"
  /\ active_process = 0
  /\ Goto(w, "wait")
  /\ UNCHANGED <<is_building, active_process, child, child_exit, finishedQueue>>
  /\ WorkerFrame

\* the loop ends with the child: not term.isalive(), or readline returns ""
WorkerLoopEnds(w) ==
  /\ workerPc[w] = "loop"
  /\ child[w] = "exited"
  /\ Goto(w, "wait")
  /\ UNCHANGED <<is_building, active_process, child, child_exit, finishedQueue>>
  /\ WorkerFrame

\* reading raises: the PTY loop catches it and breaks (line 1270), the pipe
\* loop has no handler of its own and the exception reaches line 1493
WorkerReadError(w) ==
  /\ workerPc[w] = "loop"
  /\ Goto(w, IF UsePty THEN "wait" ELSE "handler")
  /\ UNCHANGED <<is_building, active_process, child, child_exit, finishedQueue>>
  /\ WorkerFrame

\* return_code = term.wait() / process.wait()
WorkerWait(w) ==
  /\ workerPc[w] = "wait"
  /\ child[w] = "exited"
  /\ Goto(w, "clear")
  /\ UNCHANGED <<is_building, active_process, child, child_exit, finishedQueue>>
  /\ WorkerFrame

\* self.active_process = None after the wait
WorkerClear(w) ==
  /\ workerPc[w] = "clear"
  /\ active_process' = 0
  /\ Goto(w, "emit")
  /\ UNCHANGED <<is_building, child, child_exit, finishedQueue>>
  /\ WorkerFrame

\* signals.finished.emit(0 if return_code == 0 else 1)
WorkerEmitFinished(w) ==
  /\ workerPc[w] = "emit"
  /\ finishedQueue' =
       Append(finishedQueue, <<w, FinishedValue(child_exit[w][1])>>)
  /\ Goto(w, "finally")
  /\ UNCHANGED <<is_building, active_process, child, child_exit>>
  /\ WorkerFrame

\* except Exception: clear the reference, signals.finished.emit(1)
WorkerHandler(w) ==
  /\ workerPc[w] = "handler"
  /\ active_process' = 0
  /\ finishedQueue' = Append(finishedQueue, <<w, 1>>)
  /\ Goto(w, "finally")
  /\ UNCHANGED <<is_building, child, child_exit>>
  /\ WorkerFrame

\* finally: clear the reference, is_building = False
WorkerFinally(w) ==
  /\ workerPc[w] = "finally"
  /\ active_process' = 0
  /\ is_building' = FALSE
  /\ Goto(w, "done")
  /\ UNCHANGED <<child, child_exit, finishedQueue>>
  /\ WorkerFrame

\* the child process ends by itself
ChildExit(w) ==
  /\ child[w] = "alive"
  /\ child' = [child EXCEPT ![w] = "exited"]
  /\ \E code \in ExitCodes :
       child_exit' = [child_exit EXCEPT ![w] = <<code, "self">>]
  /\ UNCHANGED <<is_building, active_process, workerPc, finishedQueue>>
  /\ WorkerFrame

WorkerStep(w) ==
  \/ WorkerPrepare(w)
  \/ WorkerUnknown(w)
  \/ WorkerSpawn(w)
  \/ WorkerRegister(w)
  \/ WorkerSeesCancel(w)
  \/ WorkerLoopEnds(w)
  \/ WorkerReadError(w)
  \/ WorkerWait(w)
  \/ WorkerClear(w)
  \/ WorkerEmitFinished(w)
  \/ WorkerHandler(w)
  \/ WorkerFinally(w)
  \/ ChildExit(w)

GuiInit ==
  EngineInit /\ GuiIdle /\ PlatformInit /\ CancelIdle /\ PtyInit /\ MainIdle /\ RelayInit /\ SignalIdle

GuiNext ==
  \/ build_executable
  \/ build_installer
  \/ clear_output
  \/ command_finished
  \/ cancel_build
  \/ \E w \in Workers : WorkerStep(w)

GuiSpec == GuiInit /\ [][GuiNext]_vars

\* ------------------------------------------------------------------------
\* Properties of the editor window (GuiSpec)
\* ------------------------------------------------------------------------

\* worker w has been started and has not run to its end
WorkerRunning(w) == workerPc[w] \notin {"idle", "done"}

\* C2: a launched child that is alive is the one the active-child reference
\* refers to (the statement between the spawn and the registration excepted).
C2_AliveChildReferenced ==
  \A w \in Workers :
    (child[w] = "alive" /\ workerPc[w] # "register") => active_process = w

\* C3: no build request starts a worker while the worker and the child of an
\* earlier build are still running.
C3_SecondBuildRejected ==
  [][(\E w \in Workers : WorkerRunning(w) /\ child[w] = "alive")
       => builds' = builds]_vars

\* the build of worker w was ended by cancel_build killing its child
EndedByCancel(w) == child_exit[w] # <<>> /\ child_exit[w][2] = "cancel"

\* C16: the value signals.finished carries for a build that cancel_build
\* ended differs from the value it carries for a build whose child failed
\* by itself, whatever non-zero code that child returned.
C16_CancelDistinctFromFailure ==
  \A i \in DOMAIN finishedQueue :
    EndedByCancel(finishedQueue[i][1]) =>
      \A code \in ExitCodes \ {0} :
        finishedQueue[i][2] # FinishedValue(code)

\* both reports are reachable: a cancelled build and a build whose child
\* failed by itself have handed the same value to signals.finished
C16_SameValueForBoth ==
  \E i, j \in DOMAIN finishedQueue :
    /\ EndedByCancel(finishedQueue[i][1])
    /\ child_exit[finishedQueue[j][1]] # <<>>
    /\ child_exit[finishedQueue[j][1]][2] = "self"
    /\ child_exit[finishedQueue[j][1]][1] # 0
    /\ finishedQueue[i][2] = finishedQueue[j][2]

\* ------------------------------------------------------------------------
\* cancel_build, statement by statement (config_editor_ui.py 1855-1940).
\* The method is duck-typed: it asks the registered handle for terminate
\* and kill, so the handle's shape is drawn at the start.  The worker of the
\* build being cancelled runs alongside.
\* ------------------------------------------------------------------------

\* the step is a late event of worker w: its finally block, or
\* command_finished handling the finished signal it emitted
LateEvent(w) ==
  \/ workerPc[w] = "finally" /\ workerPc'[w] = "done"
  \/ /\ finishedQueue # <<>>
     /\ Head(finishedQueue)[1] = w
     /\ finishedQueue' = Tail(finishedQueue)

\* C32: once a build has been ended by cancel_build and a newer build is
\* running, the late events of the cancelled build's worker leave the active
\* child reference, the building flag and the progress dialog as they are
C32_LateEventsLeaveNewBuildAlone ==
  [][\A w \in Workers :
       (EndedByCancel(w) /\ builds > w /\ WorkerRunning(builds)
          /\ LateEvent(w)) =>
         /\ active_process' = active_process
         /\ is_building' = is_building
         /\ progress_dialog' = progress_dialog]_vars

\* the second build's child runs, its dialog has been accepted and nothing
\* is registered or marked as building any more: the cancelled first
\* build's events have been applied to it
C32_NewBuildDisowned ==
  /\ EndedByCancel(1)
  /\ workerPc[1] = "done"
  /\ finishedQueue = <<>>
  /\ workerPc[2] = "loop"
  /\ child[2] = "alive"
  /\ active_process = 0
  /\ ~is_building
  /\ progress_dialog = "accepted"

\* the step emits signals.finished from worker w
EmittedBy(w) ==
  /\ Len(finishedQueue') = Len(finishedQueue) + 1
  /\ finishedQueue'[Len(finishedQueue')][1] = w

\* the step takes worker w into its finally block
EntersFinally(w) == workerPc[w] # "finally" /\ workerPc'[w] = "finally"

\* the step is command_finished handling the finished signal of worker w
Delivered(w) ==
  /\ finishedQueue # <<>>
  /\ Head(finishedQueue)[1] = w
  /\ finishedQueue' = Tail(finishedQueue)

\* the worker emits finished on the one step that takes it to its finally
\* block, whatever path it took
C34_EmitsOnce ==
  [][\A w \in Workers : EmittedBy(w) <=> EntersFinally(w)]_vars

\* C34: the worker emits finished exactly once per run, and a run that
\* cancel_build has ended is not ended a second time by command_finished
C34_OneFinishedOneEnd ==
  [][\A w \in Workers :
       /\ EmittedBy(w) <=> EntersFinally(w)
       /\ Delivered(w) => ~EndedByCancel(w)]_vars

\* the run was ended by cancel_build, which closed the dialog, and the
\* worker's finished signal for it is waiting for command_finished
C34_CancelledRunEndsTwice ==
  /\ EndedByCancel(1)
  /\ builds = 1
  /\ progress_dialog = "closed"
  /\ ~is_building
  /\ finishedQueue = <<(<<1, 1>>)>>

\* hasattr(self.active_process, name) and callable(...): None has neither
HasAttr(flag) == active_process # 0 /\ flag

\* the handler an exception raised at a statement of cancel_build reaches
\* with no try block around the fallback terminate of line 1918
Handler_fallbackEscapes(loc) ==
  CASE loc \in {"sigterm", "poll", "sigkill"} -> "inner_except"
    [] loc = "ctrl_break" -> "win_fallback"
    [] loc = "inner_fallback" -> "propagated"
    [] OTHER -> "outer_except"

\* the handler an exception raised at a statement of cancel_build reaches:
\* the try of line 1895 covers the process-group statements, the bare except
\* of line 1890 covers os.kill, the try of line 1863 covers everything
Handler(loc) ==
  CASE loc \in {"sigterm", "poll", "sigkill"} -> "inner_except"
    [] loc = "ctrl_break" -> "win_fallback"
    [] OTHER -> "outer_except"

Raise(loc) ==
  /\ cancelPc' = Handler(loc)
  /\ raisedAt' = Append(raisedAt, loc)

\* what a statement of cancel_build leaves alone besides what it names
CancelFrame ==
  /\ UNCHANGED <<builds, command, workerPc, finishedQueue, platform,
                 winpty_loaded, lastRequest, hasTerminate, hasKill>>
  /\ UNCHANGED <<engineVars, ptyVars, mainVars, relayVars, signalVars>>

\* if not self.is_building: return; is a child registered?
CancelEntry ==
  /\ cancelPc = "idle"
  /\ cancelPc' = IF ~is_building THEN "returned"
                 ELSE IF active_process # 0 THEN "dispatch" ELSE "reset"
  /\ registered' = (is_building /\ active_process # 0)
  /\ UNCHANGED <<is_building, active_process, progress_dialog, child, child_exit,
                 sigSteps, polled, raisedAt>>
  /\ CancelFrame

\* the if / elif / else on the shape of the handle and on the platform
CancelDispatch ==
  /\ cancelPc = "dispatch"
  /\ cancelPc' = IF HasAttr(hasTerminate) /\ winpty_loaded
                 THEN "terminate_force"
                 ELSE IF HasAttr(hasKill) THEN "kill"
                 ELSE IF platform = "win32" THEN "ctrl_break" ELSE "sigterm"
  /\ UNCHANGED <<is_building, active_process, progress_dialog, child, child_exit,
                 registered, sigSteps, polled, raisedAt>>
  /\ CancelFrame

\* self.active_process.terminate(force=True)
CancelTerminateForce ==
  /\ cancelPc = "terminate_force"
  /\ \/ /\ active_process # 0
        /\ Killed
        /\ cancelPc' = "clear"
        /\ UNCHANGED raisedAt
     \/ /\ Raise("terminate_force")
        /\ UNCHANGED <<child, child_exit>>
  /\ UNCHANGED <<is_building, active_process, progress_dialog, registered,
                 sigSteps, polled>>
  /\ CancelFrame

\* self.active_process.kill()
CancelKill ==
  /\ cancelPc = "kill"
  /\ \/ /\ active_process # 0
        /\ Killed
        /\ cancelPc' = "clear"
        /\ UNCHANGED raisedAt
     \/ /\ Raise("kill")
        /\ UNCHANGED <<child, child_exit>>
  /\ UNCHANGED <<is_building, active_process, progress_dialog, registered,
                 sigSteps, polled>>
  /\ CancelFrame

\* os.kill(self.active_process.pid, signal.CTRL_BREAK_EVENT)
CancelCtrlBreak ==
  /\ cancelPc = "ctrl_break"
  /\ \/ /\ active_process # 0
        /\ cancelPc' = "clear"
        /\ UNCHANGED raisedAt
     \/ Raise("ctrl_break")
  /\ UNCHANGED <<is_building, active_process, progress_dialog, child, child_exit,
                 registered, sigSteps, polled>>
  /\ CancelFrame

\* except: self.active_process.terminate()
CancelWinFallback ==
  /\ cancelPc = "win_fallback"
  /\ \/ /\ HasAttr(hasTerminate)
        /\ cancelPc' = "clear"
        /\ UNCHANGED raisedAt
     \/ Raise("win_fallback")
  /\ UNCHANGED <<is_building, active_process, progress_dialog, child, child_exit,
                 registered, sigSteps, polled>>
  /\ CancelFrame

\* os.killpg(os.getpgid(self.active_process.pid), signal.SIGTERM)
CancelSigterm ==
  /\ cancelPc = "sigterm"
  /\ \/ /\ active_process # 0
        /\ sigSteps' = Append(sigSteps, <<"SIGTERM", "sent">>)
        /\ cancelPc' = "poll"
        /\ UNCHANGED raisedAt
     \/ /\ sigSteps' = Append(sigSteps, <<"SIGTERM", "raised">>)
        /\ Raise("sigterm")
  /\ UNCHANGED <<is_building, active_process, progress_dialog, child, child_exit,
                 registered, polled>>
  /\ CancelFrame

\* poll() saw the child gone, so the SIGKILL is sent all the same
AfterPoll_alwaysKill(state) == "sigkill"

\* if self.active_process.poll() is None: force kill
AfterPoll(state) == IF state = "alive" THEN "sigkill" ELSE "clear"

\* time.sleep(0.5), then self.active_process.poll()
CancelPoll ==
  /\ cancelPc = "poll"
  /\ IF active_process = 0
     THEN /\ Raise("poll")
          /\ UNCHANGED polled
     ELSE /\ polled' = child[active_process]
          /\ cancelPc' = AfterPoll(child[active_process])
          /\ UNCHANGED raisedAt
  /\ UNCHANGED <<is_building, active_process, progress_dialog, child, child_exit,
                 registered, sigSteps>>
  /\ CancelFrame

\* os.killpg(os.getpgid(self.active_process.pid), signal.SIGKILL)
CancelSigkill ==
  /\ cancelPc = "sigkill"
  /\ \/ /\ active_process # 0
        /\ sigSteps' = Append(sigSteps, <<"SIGKILL", "sent">>)
        /\ Killed
        /\ cancelPc' = "clear"
        /\ UNCHANGED raisedAt
     \/ /\ sigSteps' = Append(sigSteps, <<"SIGKILL", "raised">>)
        /\ Raise("sigkill")
        /\ UNCHANGED <<child, child_exit>>
  /\ UNCHANGED <<is_building, active_process, progress_dialog, registered,
                 polled>>
  /\ CancelFrame

\* except Exception as e: (line 1915) on the way to the fallback
CancelInnerExcept ==
  /\ cancelPc = "inner_except"
  /\ cancelPc' = "inner_fallback"
  /\ UNCHANGED <<is_building, active_process, progress_dialog, child, child_exit,
                 registered, sigSteps, polled, raisedAt>>
  /\ CancelFrame

\* self.active_process.terminate() of line 1918
CancelInnerFallback ==
  /\ cancelPc = "inner_fallback"
  /\ \/ /\ HasAttr(hasTerminate)
        /\ cancelPc' = "clear"
        /\ UNCHANGED raisedAt
     \/ Raise("inner_fallback")
  /\ UNCHANGED <<is_building, active_process, progress_dialog, child, child_exit,
                 registered, sigSteps, polled>>
  /\ CancelFrame

\* self.active_process = None (line 1921)
CancelClear ==
  /\ cancelPc = "clear"
  /\ active_process' = 0
  /\ cancelPc' = "dialog"
  /\ UNCHANGED <<is_building, progress_dialog, child, child_exit, registered, sigSteps,
                 polled, raisedAt>>
  /\ CancelFrame

\* progress_dialog.update_status("Build cancelled"); progress_dialog.close()
CancelDialog ==
  /\ cancelPc = "dialog"
  /\ progress_dialog' =
       IF progress_dialog # "none" THEN "closed" ELSE progress_dialog
  /\ cancelPc' = "reset"
  /\ UNCHANGED <<is_building, active_process, child, child_exit, registered, sigSteps,
                 polled, raisedAt>>
  /\ CancelFrame

\* except Exception as e: (line 1931) self.active_process = None
CancelOuterExcept ==
  /\ cancelPc = "outer_except"
  /\ active_process' = 0
  /\ cancelPc' = "reset"
  /\ UNCHANGED <<is_building, progress_dialog, child, child_exit, registered, sigSteps,
                 polled, raisedAt>>
  /\ CancelFrame

\* self.is_building = False; self.set_ui_enabled(True); return
CancelReset ==
  /\ cancelPc = "reset"
  /\ is_building' = FALSE
  /\ cancelPc' = "returned"
  /\ UNCHANGED <<active_process, progress_dialog, child, child_exit, registered,
                 sigSteps, polled, raisedAt>>
  /\ CancelFrame

CancelStep ==
  \/ CancelEntry
  \/ CancelDispatch
  \/ CancelTerminateForce
  \/ CancelKill
  \/ CancelCtrlBreak
  \/ CancelWinFallback
  \/ CancelSigterm
  \/ CancelPoll
  \/ CancelSigkill
  \/ CancelInnerExcept
  \/ CancelInnerFallback
  \/ CancelClear
  \/ CancelDialog
  \/ CancelOuterExcept
  \/ CancelReset

\* a build is running, its child registered, its worker in the read loop,
\* and the user presses Cancel
CancelInit ==
  /\ EngineInit /\ PtyInit /\ PlatformInit /\ MainIdle /\ RelayInit /\ SignalIdle
  /\ is_building = TRUE
  /\ active_process = 1
  /\ progress_dialog = "shown"
  /\ builds = 1
  /\ command = [w \in Workers |-> IF w = 1 THEN "build-exe" ELSE "none"]
  /\ workerPc = [w \in Workers |-> IF w = 1 THEN "loop" ELSE "idle"]
  /\ child = [w \in Workers |-> IF w = 1 THEN "alive" ELSE "none"]
  /\ child_exit = [w \in Workers |-> <<>>]
  /\ finishedQueue = <<>>
  /\ lastRequest = "accepted"
  /\ cancelPc = "idle"
  /\ hasTerminate \in BOOLEAN
  /\ hasKill \in BOOLEAN
  /\ registered = FALSE
  /\ sigSteps = <<>>
  /\ polled = "none"
  /\ raisedAt = <<>>

\* the worker of the build, from the read loop on
CancelWorkerStep ==
  \/ WorkerSeesCancel(1)
  \/ WorkerLoopEnds(1)
  \/ WorkerReadError(1)
  \/ WorkerWait(1)
  \/ WorkerClear(1)
  \/ WorkerEmitFinished(1)
  \/ WorkerHandler(1)
  \/ WorkerFinally(1)
  \/ ChildExit(1)

CancelNext == CancelStep \/ CancelWorkerStep

CancelSpec == CancelInit /\ [][CancelNext]_vars

\* ------------------------------------------------------------------------
\* Properties of cancel_build (CancelSpec)
\* ------------------------------------------------------------------------

\* the handle exposes neither terminate nor kill, and the platform is POSIX
PlainPosixHandle == ~hasTerminate /\ ~hasKill /\ platform = "posix"

\* the signals of the os.killpg statements executed so far, in order
SigKinds == [i \in DOMAIN sigSteps |-> sigSteps[i][1]]

\* C5: for a handle with neither terminate nor kill on POSIX, the SIGTERM
\* statement is the first signalling statement executed, the SIGKILL
\* statement is executed after it if and only if poll() after the grace wait
\* found the child alive, and SIGKILL never comes before SIGTERM.
C5_SigtermThenSigkillIfAlive ==
  PlainPosixHandle =>
    /\ SigKinds \in {<<>>, <<"SIGTERM">>, <<"SIGTERM", "SIGKILL">>}
    /\ Len(sigSteps) = 2 => (sigSteps[1][2] = "sent" /\ polled = "alive")
    /\ (registered /\ cancelPc = "returned") =>
         /\ Len(sigSteps) >= 1
         /\ (Len(sigSteps) = 2 <=> polled = "alive")

C5_Witness ==
  /\ PlainPosixHandle
  /\ registered
  /\ cancelPc = "returned"
  /\ sigSteps = << <<"SIGTERM", "sent">>, <<"SIGKILL", "sent">> >>
  /\ polled = "alive"

\* C6: when cancel_build has handled a request that found a child
\* registered, it has returned to its caller and the active-child reference
\* is None, whatever statements raised on the way.
C6_ReferenceClearedAfterCancel ==
  (registered /\ cancelPc \in {"returned", "propagated"}) =>
    (cancelPc = "returned" /\ active_process = 0)

C6_Witness ==
  /\ registered
  /\ cancelPc = "returned"
  /\ active_process = 0
  /\ \E i \in DOMAIN raisedAt : raisedAt[i] = "inner_fallback"
  /\ child[1] = "alive"

\* the handle the worker registers on the pipe branch on POSIX: a
\* subprocess.Popen object, which has callable terminate and kill methods
PopenPosixHandle == hasTerminate /\ hasKill /\ platform = "posix"

\* C25: when cancel_build has handled a request that found the Popen child
\* of the pipe branch registered on POSIX and nothing raised, it has sent
\* SIGTERM to the child's process group (and SIGKILL after it if the child
\* was still alive)
C25_PopenGroupSignalled ==
  (PopenPosixHandle /\ registered /\ cancelPc = "returned"
     /\ raisedAt = <<>>) =>
    /\ Len(sigSteps) >= 1
    /\ sigSteps[1] = <<"SIGTERM", "sent">>
    /\ (Len(sigSteps) = 2 <=> polled = "alive")

\* the Popen child was ended by kill() on the handle alone: no process
\* group was signalled
C25_OnlyDirectChildKilled ==
  /\ PopenPosixHandle
  /\ registered
  /\ cancelPc = "returned"
  /\ raisedAt = <<>>
  /\ sigSteps = <<>>
  /\ EndedByCancel(1)

\* the statements of cancel_build that read self.active_process after the
\* "is not None" test of line 1861
CancelUses ==
  {"dispatch", "terminate_force", "kill", "ctrl_break", "win_fallback",
   "sigterm", "poll", "sigkill", "inner_fallback"}

\* C31: while cancel_build is between its "is not None" test and the last
\* statement that uses the reference, the reference is not None: the worker
\* does not clear it in between
C31_ReferenceHeldWhileCancelling ==
  (registered /\ cancelPc \in CancelUses) => active_process # 0

\* cancel_build has passed the test and is about to call kill() on a
\* reference the worker has set to None after its wait
C31_ClearedUnderCancel ==
  /\ registered
  /\ cancelPc = "kill"
  /\ active_process = 0
  /\ workerPc[1] \in {"emit", "finally", "done"}
  /\ child_exit[1] # <<>> /\ child_exit[1][2] = "self"

\* ------------------------------------------------------------------------
\* build_exe.py, PTY path: the reader thread _enqueue_output and the
\* consumer loop of main that drains output_queue
\* ------------------------------------------------------------------------

\* len(f"Nuitka still processing... {anim_char}")
HeartbeatMsgLen == 28
\* len(heartbeat_chars)
HeartbeatChars == 4

\* what a step of the reader or of the consumer leaves alone
PtyFrame == UNCHANGED <<engineVars, guiVars, cancelVars, mainVars, relayVars, signalVars>>

\* char_chunk = out_pty.read(CHUNK_SIZE): text, the empty string, PtyClosed
\* or another exception
ReaderRead ==
  /\ readerPc = "read"
  /\ \/ /\ chunksRead < MaxChunks
        /\ chunksRead' = chunksRead + 1
        /\ readerPc' = "put"
        /\ UNCHANGED readerExit
     \/ /\ readerExit' = "empty"
        /\ readerPc' = "finally"
        /\ UNCHANGED chunksRead
     \/ /\ \E e \in {"closed", "error"} : readerExit' = e
        /\ readerPc' = "handler"
        /\ UNCHANGED chunksRead
  /\ UNCHANGED <<queue, pushed, consumerPc, termAlive, heartbeat_len,
                 heartbeat_idx, idle_over_5, heartbeat_at_write>>
  /\ PtyFrame

\* queue_obj.put(char_chunk)
ReaderPut ==
  /\ readerPc = "put"
  /\ queue' = Append(queue, "chunk")
  /\ pushed' = Append(pushed, "chunk")
  /\ readerPc' = "read"
  /\ UNCHANGED <<readerExit, chunksRead, consumerPc, termAlive,
                 heartbeat_len, heartbeat_idx, idle_over_5, heartbeat_at_write>>
  /\ PtyFrame

\* except Exception as e_read: print to stderr, break
ReaderHandler ==
  /\ readerPc = "handler"
  /\ readerPc' = "finally"
  /\ UNCHANGED <<readerExit, queue, pushed, chunksRead, consumerPc,
                 termAlive, heartbeat_len, heartbeat_idx, idle_over_5, heartbeat_at_write>>
  /\ PtyFrame

\* a finally block that only flushes stderr
ReaderFinally_noSentinel ==
  /\ readerPc = "finally"
  /\ readerPc' = "done"
  /\ UNCHANGED <<readerExit, queue, pushed, chunksRead, consumerPc,
                 termAlive, heartbeat_len, heartbeat_idx, idle_over_5, heartbeat_at_write>>
  /\ PtyFrame

\* finally: sys.stderr.flush(); queue_obj.put(None)
ReaderFinally ==
  /\ readerPc = "finally"
  /\ queue' = Append(queue, "None")
  /\ pushed' = Append(pushed, "None")
  /\ readerPc' = "done"
  /\ UNCHANGED <<readerExit, chunksRead, consumerPc, termAlive,
                 heartbeat_len, heartbeat_idx, idle_over_5, heartbeat_at_write>>
  /\ PtyFrame

\* a chunk written with the heartbeat still on stderr
ConsumerGet_noClear ==
  /\ consumerPc = "loop"
  /\ queue # <<>>
  /\ queue' = Tail(queue)
  /\ IF Head(queue) = "None"
     THEN /\ consumerPc' = "left"
          /\ UNCHANGED <<heartbeat_len, idle_over_5, heartbeat_at_write>>
     ELSE /\ heartbeat_at_write' = heartbeat_len
          /\ idle_over_5' = FALSE
          /\ UNCHANGED heartbeat_len
          /\ \/ consumerPc' = "loop"
             \/ consumerPc' = "left"
  /\ UNCHANGED <<readerPc, readerExit, pushed, chunksRead, termAlive,
                 heartbeat_idx>>
  /\ PtyFrame

\* output_chunk = output_queue.get(timeout=0.1) returns an item: the
\* sentinel breaks the loop; for a chunk the heartbeat is cleared, then the
\* chunk is written and last_output_time is set; an exception while
\* processing breaks the loop (line 548)
ConsumerGet ==
  /\ consumerPc = "loop"
  /\ queue # <<>>
  /\ queue' = Tail(queue)
  /\ IF Head(queue) = "None"
     THEN /\ consumerPc' = "left"
          /\ UNCHANGED <<heartbeat_len, idle_over_5, heartbeat_at_write>>
     ELSE /\ heartbeat_len' = 0
          /\ heartbeat_at_write' = 0
          /\ idle_over_5' = FALSE
          /\ \/ consumerPc' = "loop"
             \/ consumerPc' = "left"
  /\ UNCHANGED <<readerPc, readerExit, pushed, chunksRead, termAlive,
                 heartbeat_idx>>
  /\ PtyFrame

\* except queue.Empty: leave when the child is gone and the queue is empty,
\* write the heartbeat when the child is alive and silent for 5 seconds
ConsumerTimeout ==
  /\ consumerPc = "loop"
  /\ queue = <<>>
  /\ IF ~termAlive
     THEN /\ heartbeat_len' = 0
          /\ consumerPc' = "left"
          /\ UNCHANGED heartbeat_idx
     ELSE IF idle_over_5
          THEN /\ heartbeat_len' = HeartbeatMsgLen
               /\ heartbeat_idx' = (heartbeat_idx + 1) % HeartbeatChars
               /\ UNCHANGED consumerPc
          ELSE UNCHANGED <<heartbeat_len, heartbeat_idx, consumerPc>>
  /\ UNCHANGED <<readerPc, readerExit, queue, pushed, chunksRead, termAlive,
                 idle_over_5, heartbeat_at_write>>
  /\ PtyFrame

\* the loop is left with the heartbeat still on stderr
ConsumerFinalClear_keepsHeartbeat ==
  /\ consumerPc = "left"
  /\ consumerPc' = "join"
  /\ UNCHANGED <<readerPc, readerExit, queue, pushed, chunksRead, termAlive,
                 heartbeat_len, heartbeat_idx, idle_over_5,
                 heartbeat_at_write>>
  /\ PtyFrame

\* after the loop: the final clear of the heartbeat
ConsumerFinalClear ==
  /\ consumerPc = "left"
  /\ heartbeat_len' = 0
  /\ consumerPc' = "join"
  /\ UNCHANGED <<readerPc, readerExit, queue, pushed, chunksRead, termAlive,
                 heartbeat_idx, idle_over_5, heartbeat_at_write>>
  /\ PtyFrame

\* more than 5 seconds have gone by since last_output_time
IdleElapses ==
  /\ consumerPc = "loop"
  /\ ~idle_over_5
  /\ idle_over_5' = TRUE
  /\ UNCHANGED <<readerPc, readerExit, queue, pushed, chunksRead, consumerPc,
                 termAlive, heartbeat_len, heartbeat_idx, heartbeat_at_write>>
  /\ PtyFrame

\* the Nuitka child ends
TermExit ==
  /\ termAlive
  /\ termAlive' = FALSE
  /\ UNCHANGED <<readerPc, readerExit, queue, pushed, chunksRead, consumerPc,
                 heartbeat_len, heartbeat_idx, idle_over_5, heartbeat_at_write>>
  /\ PtyFrame

\* the steps of the reader that do not wait for the child
ReaderProceeds == ReaderPut \/ ReaderHandler \/ ReaderFinally

ConsumerStep == ConsumerGet \/ ConsumerTimeout \/ ConsumerFinalClear

PtySpecInit ==
  /\ EngineInit /\ GuiIdle /\ CancelIdle /\ PtyInit /\ MainIdle /\ RelayInit /\ SignalIdle
  /\ platform = "win32" /\ winpty_loaded = TRUE

PtyNext ==
  \/ ReaderRead
  \/ ReaderProceeds
  \/ ConsumerStep
  \/ IdleElapses
  \/ TermExit

PtySpec == PtySpecInit /\ [][PtyNext]_vars

\* both threads are scheduled: a thread that can take a step that does not
\* wait for the child takes it; get(timeout=0.1) always comes back
FairPtySpec ==
  /\ PtySpec
  /\ WF_vars(ReaderProceeds)
  /\ WF_vars(ConsumerStep)

\* ------------------------------------------------------------------------
\* Properties of the PTY reader and consumer (FairPtySpec)
\* ------------------------------------------------------------------------

\* positions of the sentinel among the items pushed
SentinelAt == {i \in DOMAIN pushed : pushed[i] = "None"}

\* the sentinel is pushed at most once, nothing is pushed after it, and the
\* reader has ended exactly when it has been pushed
SentinelOnceAndLast ==
  /\ Cardinality(SentinelAt) <= 1
  /\ \A i \in SentinelAt : i = Len(pushed)
  /\ readerPc = "done" <=> SentinelAt # {}

\* the reader has left its while loop by one of its exit paths
ReaderLeftLoop == readerPc \in {"handler", "finally", "done"}

\* C4: the reader pushes the sentinel exactly once and as its last item on
\* every exit path, and once the reader has left its loop the consumer
\* leaves its loop too.
C4_SentinelThenConsumerLeaves ==
  /\ []SentinelOnceAndLast
  /\ ReaderLeftLoop ~> (consumerPc # "loop")

C4_Witness ==
  /\ readerPc = "done"
  /\ readerExit = "error"
  /\ pushed = <<"chunk", "None">>
  /\ queue = <<>>
  /\ consumerPc = "left"
  /\ termAlive


\* C12: a poll of the queue that times out while the child is alive and
\* more than 5 seconds have passed since the last chunk writes the heartbeat
\* and advances its animation; a chunk taken from the queue clears the
\* heartbeat before the chunk is written; and while the child stays alive
\* and silent in the consumer loop the heartbeat does get shown.
C12_HeartbeatWhenIdleClearedByChunk ==
  /\ [][(ConsumerTimeout /\ termAlive /\ idle_over_5)
          => /\ heartbeat_len' = HeartbeatMsgLen
             /\ heartbeat_idx' = (heartbeat_idx + 1) % HeartbeatChars]_vars
  /\ [][(queue # <<>> /\ Head(queue) = "chunk" /\ queue' = Tail(queue))
          => (heartbeat_len' = 0 /\ heartbeat_at_write' = 0)]_vars
  /\ (termAlive /\ idle_over_5 /\ consumerPc = "loop")
       ~> \/ heartbeat_len = HeartbeatMsgLen
          \/ ~idle_over_5
          \/ ~termAlive
          \/ consumerPc # "loop"

\* the heartbeat was written once, and the chunk that came after it was
\* written to a cleared stderr line
C12_Witness ==
  /\ termAlive
  /\ consumerPc = "loop"
  /\ heartbeat_idx = 1
  /\ ~idle_over_5
  /\ heartbeat_len = 0
  /\ heartbeat_at_write = 0
  /\ chunksRead >= 1

\* C36: once the consumer loop has ended and main goes on to the reader
\* join and the exit status, no heartbeat text is left on stderr, whichever
\* way the loop was left
C36_NoHeartbeatAfterLoop ==
  consumerPc = "join" => heartbeat_len = 0

\* the loop was left on the sentinel with the heartbeat showing (no chunk
\* ever came to clear it), and the clear after the loop removed it
C36_Witness ==
  /\ consumerPc = "join"
  /\ pushed = <<"None">>
  /\ queue = <<>>
  /\ heartbeat_idx >= 1
  /\ heartbeat_len = 0

\* C29: the consumer leaves its loop on the liveness check (queue.Empty with
\* the child gone) only when no chunk is still to be delivered: the reader
\* is not holding a chunk it has read and not yet put on the queue
C29_ConsumerLeavesOnlyWhenDrained ==
  [][(consumerPc = "loop" /\ consumerPc' = "left" /\ queue = <<>>)
       => readerPc # "put"]_vars

\* the consumer has left its loop and is at the join without having taken
\* anything from the queue; the chunk and the sentinel the reader pushed
\* stay on the queue
C29_ChunkNeverWritten ==
  /\ consumerPc = "join"
  /\ readerPc = "done"
  /\ pushed = <<"chunk", "None">>
  /\ queue = pushed


\* ------------------------------------------------------------------------
\* build_exe.main: configuration, interpreter, child, copy, installer
\* ------------------------------------------------------------------------

\* lines of child output the read loop of main handles in one run
MaxLines == 2

\* what a stage of main leaves alone besides what it names
MainFrame ==
  /\ UNCHANGED <<config_state, python_exists, copy_beside, installer_enabled>>
  /\ UNCHANGED <<engineVars, guiVars, cancelVars, ptyVars, relayVars, signalVars>>

\* sys.exit(code): SystemExit is not an Exception, so neither handler of
\* main catches it and it leaves main with the code it was given
SysExit(code, stage) ==
  /\ system_exit' = <<code>>
  /\ main_failure' = stage
  /\ mainPc' = "exited"

\* main goes on to the next stage
MainGoto(pc) ==
  /\ mainPc' = pc
  /\ UNCHANGED <<system_exit, main_failure>>

\* an exception is raised outside the inner try block: the handler at the end
\* of main prints it and calls sys.exit(1)
OuterExcept(stage) == SysExit(1, stage)

\* an exception is raised while the child is launched or read: the handler of
\* the inner try block prints it and calls sys.exit(1)
InnerExcept(stage) == SysExit(1, stage)

\* open(config_file) and yaml.safe_load, then config["_config_file_path"]
MainLoadConfig_ignoresError ==
  /\ mainPc = "load"
  /\ MainGoto("python")
  /\ UNCHANGED <<main_active, nuitka, nuitka_exit, main_return_code, stages,
                 main_line_count>>
  /\ MainFrame

MainLoadConfig ==
  /\ mainPc = "load"
  /\ IF config_state = "ok" THEN MainGoto("python") ELSE OuterExcept("config")
  /\ UNCHANGED <<main_active, nuitka, nuitka_exit, main_return_code, stages,
                 main_line_count>>
  /\ MainFrame

\* find_venv_python, then "if not os.path.exists(python_exe): raise"
MainCheckPython ==
  /\ mainPc = "python"
  /\ IF python_exists THEN MainGoto("outdir") ELSE OuterExcept("python")
  /\ UNCHANGED <<main_active, nuitka, nuitka_exit, main_return_code, stages,
                 main_line_count>>
  /\ MainFrame

\* output_dir_path.mkdir: both handlers call sys.exit(1)
MainOutputDir ==
  /\ mainPc = "outdir"
  /\ \/ MainGoto("command")
     \/ SysExit(1, "outdir")
  /\ UNCHANGED <<main_active, nuitka, nuitka_exit, main_return_code, stages,
                 main_line_count>>
  /\ MainFrame

\* the lock check on Windows and build_nuitka_command: either returns or
\* raises to the handler at the end of main
MainBuildCommand ==
  /\ mainPc = "command"
  /\ \/ MainGoto("spawn")
     \/ OuterExcept("command")
  /\ UNCHANGED <<main_active, nuitka, nuitka_exit, main_return_code, stages,
                 main_line_count>>
  /\ MainFrame

\* the branch of main that runs the child under a PTY
MainUsePty == platform = "win32" /\ winpty_loaded

\* winpty.PtyProcess.spawn / subprocess.Popen: the child runs, or the call
\* raises inside the inner try block
MainSpawn_registersFirst ==
  /\ mainPc = "spawn"
  /\ main_active' = "child"
  /\ \/ /\ nuitka' = "alive"
        /\ stages' = Append(stages, "build")
        /\ MainGoto("register")
     \/ /\ InnerExcept("spawn")
        /\ UNCHANGED <<nuitka, stages>>
  /\ UNCHANGED <<nuitka_exit, main_return_code, main_line_count>>
  /\ MainFrame

MainSpawn ==
  /\ mainPc = "spawn"
  /\ \/ /\ nuitka' = "alive"
        /\ stages' = Append(stages, "build")
        /\ MainGoto("register")
     \/ /\ InnerExcept("spawn")
        /\ UNCHANGED <<nuitka, stages>>
  /\ UNCHANGED <<main_active, nuitka_exit, main_return_code, main_line_count>>
  /\ MainFrame

\* active_process = term / process, and the read loop is entered
MainRegister ==
  /\ mainPc = "register"
  /\ main_active' = "child"
  /\ stages' = Append(stages, "read")
  /\ MainGoto("read")
  /\ UNCHANGED <<nuitka, nuitka_exit, main_return_code, main_line_count>>
  /\ MainFrame

\* the child ends by itself
NuitkaExit ==
  /\ nuitka = "alive"
  /\ nuitka' = "exited"
  /\ \E code \in ExitCodes : nuitka_exit' = <<code, "self">>
  /\ UNCHANGED <<mainPc, main_active, main_return_code, system_exit, stages,
                 main_failure, main_line_count>>
  /\ MainFrame

\* one line of child output is printed and classified
MainReadLine ==
  /\ mainPc = "read"
  /\ main_line_count < MaxLines
  /\ main_line_count' = main_line_count + 1
  /\ UNCHANGED <<mainPc, main_active, nuitka, nuitka_exit, main_return_code,
                 system_exit, stages, main_failure>>
  /\ MainFrame

\* the read loop is left: the PTY consumer got the sentinel, saw the child
\* dead or caught its own exception; the pipe loop read the end of the stream
MainLoopEnds ==
  /\ mainPc = "read"
  /\ stages' = Append(stages, "wait")
  /\ MainGoto("wait")
  /\ UNCHANGED <<main_active, nuitka, nuitka_exit, main_return_code,
                 main_line_count>>
  /\ MainFrame

\* the pipe loop has no handler of its own: what readline or print raises
\* goes to the handler of the inner try block, the reference stays set
MainReadError ==
  /\ mainPc = "read"
  /\ ~MainUsePty
  /\ InnerExcept("read")
  /\ UNCHANGED <<main_active, nuitka, nuitka_exit, main_return_code, stages,
                 main_line_count>>
  /\ MainFrame

\* PTY: term.exitstatus, else term.wait(timeout=1), else forced termination
\* and "term.exitstatus if term.exitstatus is not None else 1";
\* pipe: process.wait(). Then active_process = None
MainWait ==
  /\ mainPc = "wait"
  /\ IF nuitka = "exited"
     THEN /\ main_return_code' = <<nuitka_exit[1]>>
          /\ UNCHANGED <<nuitka, nuitka_exit>>
     ELSE /\ MainUsePty
          /\ nuitka' = "exited"
          /\ \E code \in ExitCodes \ {0} :
               /\ nuitka_exit' = <<code, "forced">>
               /\ main_return_code' = <<code>>
  /\ main_active' = "None"
  /\ MainGoto("check")
  /\ UNCHANGED <<stages, main_line_count>>
  /\ MainFrame

\* "if return_code != 0: ... sys.exit(return_code)"
MainCheck_exitsWithOne ==
  /\ mainPc = "check"
  /\ IF main_return_code[1] # 0
     THEN SysExit(1, "child")
     ELSE MainGoto("copy")
  /\ UNCHANGED <<main_active, nuitka, nuitka_exit, main_return_code, stages,
                 main_line_count>>
  /\ MainFrame

MainCheck ==
  /\ mainPc = "check"
  /\ IF main_return_code[1] # 0
     THEN SysExit(main_return_code[1], "child")
     ELSE MainGoto("copy")
  /\ UNCHANGED <<main_active, nuitka, nuitka_exit, main_return_code, stages,
                 main_line_count>>
  /\ MainFrame

\* the copy-beside section: every item's errors are caught and printed
MainCopy ==
  /\ mainPc = "copy"
  /\ stages' = IF copy_beside THEN Append(stages, "copy") ELSE stages
  /\ MainGoto("installer")
  /\ UNCHANGED <<main_active, nuitka, nuitka_exit, main_return_code,
                 main_line_count>>
  /\ MainFrame

\* "if installer.enabled: build_wix_installer(config)": it returns, or what
\* it raises goes to the handler at the end of main
MainInstaller ==
  /\ mainPc = "installer"
  /\ IF installer_enabled
     THEN /\ stages' = Append(stages, "installer")
          /\ \/ MainGoto("returned")
             \/ OuterExcept("installer")
     ELSE /\ MainGoto("returned")
          /\ UNCHANGED stages
  /\ UNCHANGED <<main_active, nuitka, nuitka_exit, main_return_code,
                 main_line_count>>
  /\ MainFrame

\* main is called with a configuration file name
MainInit ==
  /\ config_state \in {"unreadable", "malformed", "ok"}
  /\ python_exists \in BOOLEAN
  /\ copy_beside \in BOOLEAN
  /\ installer_enabled \in BOOLEAN
  /\ mainPc = "load"
  /\ main_active = "None"
  /\ nuitka = "none"
  /\ nuitka_exit = <<>>
  /\ main_return_code = <<>>
  /\ system_exit = <<>>
  /\ stages = <<>>
  /\ main_failure = "none"
  /\ main_line_count = 0

MainSpecInit ==
  /\ EngineInit /\ GuiIdle /\ CancelIdle /\ PtyInit
  /\ PlatformInit /\ MainInit /\ RelayInit /\ SignalIdle

MainNext ==
  \/ MainLoadConfig
  \/ MainCheckPython
  \/ MainOutputDir
  \/ MainBuildCommand
  \/ MainSpawn
  \/ MainRegister
  \/ NuitkaExit
  \/ MainReadLine
  \/ MainLoopEnds
  \/ MainReadError
  \/ MainWait
  \/ MainCheck
  \/ MainCopy
  \/ MainInstaller

MainSpec == MainSpecInit /\ [][MainNext]_vars

C17_AllStagesRun ==
  /\ mainPc = "returned"
  /\ stages = <<"build", "read", "wait", "copy", "installer">>

\* C18: when the launch of the child has failed, because the interpreter is
\* missing or the spawn call raised, no child is registered (active_process
\* is None), main has left with the error result SystemExit(1), and neither
\* the read loop nor the collection of an exit code has been entered.
C18_FailedLaunchLeavesNothingActive ==
  main_failure \in {"python", "spawn"}
    => /\ main_active = "None"
       /\ nuitka = "none"
       /\ mainPc = "exited"
       /\ system_exit = <<1>>
       /\ "read" \notin Range(stages)
       /\ "wait" \notin Range(stages)
       /\ main_return_code = <<>>
       /\ main_line_count = 0

\* the spawn call raised with an interpreter that exists
C18_Witness ==
  /\ main_failure = "spawn"
  /\ python_exists
  /\ mainPc = "exited"

\* the interpreter is missing
C18_InterpreterMissing ==
  /\ main_failure = "python"
  /\ ~python_exists
  /\ mainPc = "exited"

\* C19: main called with a configuration file that cannot be opened leaves
\* with SystemExit(1) as soon as the load step has acted; no child has been
\* launched and no active child has been registered.
C19_UnreadableConfigExitsBeforeLaunch ==
  config_state = "unreadable"
    => /\ mainPc \in {"load", "exited"}
       /\ mainPc = "exited" => (system_exit = <<1>> /\ main_failure = "config")
       /\ nuitka = "none"
       /\ main_active = "None"
       /\ stages = <<>>

\* the load step has acted on an unreadable file
C19_Witness ==
  /\ config_state = "unreadable"
  /\ mainPc = "exited"
  /\ system_exit = <<1>>

\* ------------------------------------------------------------------------
\* build_exe.main: the read loop that relays the child's output and adds
\* PROGRESS lines to it
\* ------------------------------------------------------------------------

\* iterations of the read loop that are explored
MaxRelay == 3

\* seconds of wall-clock time that are explored
MaxTime == 7

\* the fallback waits for more than this many seconds
IdleSeconds == 5

\* the texts the marker tests look for
N_NuitkaOptions ==
  <<"N","u","i","t","k","a","-","O","p","t","i","o","n","s",":">>

N_NuitkaInfo ==
  <<"N","u","i","t","k","a",":","I","N","F","O",":">>

N_StartingCompilation ==
  <<"S","t","a","r","t","i","n","g"," ","P","y","t","h","o","n"," ","c",
    "o","m","p","i","l","a","t","i","o","n">>

N_CCompiler ==
  <<"C"," ","c","o","m","p","i","l","e","r">>

N_Compiling ==
  <<"C","o","m","p","i","l","i","n","g">>

N_module ==
  <<"m","o","d","u","l","e">>

N_Generating ==
  <<"G","e","n","e","r","a","t","i","n","g">>

N_CCode ==
  <<"C"," ","c","o","d","e">>

N_BuildingExtension ==
  <<"B","u","i","l","d","i","n","g"," ","e","x","t","e","n","s","i","o",
    "n"," ","m","o","d","u","l","e","s">>

N_Linking ==
  <<"L","i","n","k","i","n","g">>

N_executable ==
  <<"e","x","e","c","u","t","a","b","l","e">>

N_modules ==
  <<"m","o","d","u","l","e","s">>

N_Postprocessing ==
  <<"N","u","i","t","k","a","-","P","o","s","t","p","r","o","c","e","s",
    "s","i","n","g",":">>

N_Onefile ==
  <<"N","u","i","t","k","a","-","O","n","e","f","i","l","e",":">>

N_SuccessfullyCreated ==
  <<"N","u","i","t","k","a",":"," ","S","u","c","c","e","s","s","f","u",
    "l","l","y"," ","c","r","e","a","t","e","d">>

N_Packaging ==
  <<"P","a","c","k","a","g","i","n","g">>

N_Copying ==
  <<"C","o","p","y","i","n","g">>

N_BuiltSuccessfully ==
  <<"E","x","e","c","u","t","a","b","l","e"," ","b","u","i","l","t"," ",
    "s","u","c","c","e","s","s","f","u","l","l","y">>

\* what one read of the child's output may return
RelayChunks ==
  {L_NuitkaOptions, L_CompilingModule, L_BuiltOk, L_UsedPython, L_Plain,
   L_Build3, L_Ghi}

\* output_chunk.count("\n")
CountNewlines(text) == Cardinality({i \in DOMAIN text : text[i] = "\n"})

\* readline returns one line: a newline can only be its last character
IsOneLine(text) ==
  CountNewlines(text) = (IF EndsWith(text, <<"\n">>) THEN 1 ELSE 0)

\* the PTY loop's if/elif chain over the chunk: the value of the PROGRESS
\* line it prints, 0 when no branch is taken
PtyMarkerProgress(output_chunk) ==
  IF Contains(output_chunk, N_NuitkaOptions) THEN 30
  ELSE IF Contains(output_chunk, N_NuitkaInfo)
          /\ Contains(output_chunk, N_StartingCompilation) THEN 35
  ELSE IF Contains(output_chunk, N_NuitkaInfo)
          /\ Contains(output_chunk, N_CCompiler) THEN 40
  ELSE IF Contains(output_chunk, N_Compiling)
          /\ Contains(output_chunk, N_module) THEN 45
  ELSE IF Contains(output_chunk, N_Generating)
          /\ Contains(output_chunk, N_CCode) THEN 50
  ELSE IF Contains(output_chunk, N_BuildingExtension) THEN 55
  ELSE IF Contains(output_chunk, N_Linking)
          /\ (Contains(output_chunk, N_executable)
              \/ Contains(output_chunk, N_modules)) THEN 60
  ELSE IF Contains(output_chunk, N_Postprocessing)
          \/ Contains(output_chunk, N_Onefile) THEN 75
  ELSE IF Contains(output_chunk, N_SuccessfullyCreated) THEN 95
  ELSE 0

\* the pipe loop's if/elif chain over the line
PipeMarkerProgress(line) ==
  IF Contains(line, N_NuitkaOptions) THEN 30
  ELSE IF Contains(line, N_NuitkaInfo)
          /\ Contains(line, N_StartingCompilation) THEN 35
  ELSE IF Contains(line, N_NuitkaInfo)
          /\ Contains(line, N_CCompiler) THEN 40
  ELSE IF Contains(line, N_Compiling) THEN 45
  ELSE IF Contains(line, N_Generating) THEN 50
  ELSE IF Contains(line, N_BuildingExtension) THEN 55
  ELSE IF Contains(line, N_Linking) THEN 60
  ELSE IF Contains(line, N_Packaging) THEN 75
  ELSE IF Contains(line, N_Copying) THEN 85
  ELSE IF Contains(line, N_BuiltSuccessfully) THEN 95
  ELSE 0

\* line_count after the chunk has been counted
CountedLines(output_chunk) ==
  IF MainUsePty
  THEN relay_line_count + CountNewlines(output_chunk)
       + (IF EndsWith(output_chunk, <<"\n">>) THEN 0 ELSE 1)
  ELSE relay_line_count + 1

\* min(90, 30 + (line_count // 20))
FallbackProgress(counted) ==
  IF 30 + (counted \div 20) < 90 THEN 30 + (counted \div 20) ELSE 90

\* the rest of one iteration after the chunk has been written and counted:
\* the marker chain, and the fallback when no marker matched
RelayClassify(output_chunk, counted, marker, new_progress) ==
  /\ relay_line_count' = counted
  /\ IF marker # 0
     THEN /\ stdout' = stdout \o <<(<<"output", output_chunk>>),
                                   (<<"progress", marker, "marker">>)>>
          /\ last_change_time' = relay_now
          /\ UNCHANGED <<last_progress, last_progress_time>>
     ELSE IF (relay_now - last_progress_time) > IdleSeconds
             /\ new_progress > last_progress
     THEN /\ stdout' = stdout \o <<(<<"output", output_chunk>>),
                                   (<<"progress", new_progress, "fallback">>)>>
          /\ last_progress' = new_progress
          /\ last_progress_time' = relay_now
          /\ last_change_time' = relay_now
     ELSE /\ stdout' = Append(stdout, <<"output", output_chunk>>)
          /\ UNCHANGED <<last_progress, last_progress_time,
                         last_change_time>>

RelayFrame ==
  UNCHANGED <<engineVars, guiVars, cancelVars, ptyVars, mainVars, signalVars>>

\* the PTY loop's "if heartbeat_len > 0": blank the heartbeat on stderr
ClearHeartbeat ==
  IF MainUsePty /\ heartbeat_len > 0
  THEN /\ stderr' = Append(stderr, <<"clear", heartbeat_len>>)
       /\ heartbeat_len' = 0
  ELSE UNCHANGED <<stderr, heartbeat_len>>

\* what the read loop leaves alone of the reader thread and the child
RelayPtyFrame ==
  /\ UNCHANGED <<readerPc, readerExit, queue, pushed, chunksRead, termAlive,
                 idle_over_5, heartbeat_at_write>>
  /\ UNCHANGED <<engineVars, guiVars, cancelVars, mainVars, signalVars>>

\* one iteration of the read loop with a chunk of child output: the
\* heartbeat is cleared (PTY loop), the chunk is written and counted,
\* last_output_time is set, then the chunk is classified
RelayIteration(output_chunk) ==
  /\ consumerPc = "loop"
  /\ relay_iterations < MaxRelay
  /\ MainUsePty \/ IsOneLine(output_chunk)
  /\ relay_iterations' = relay_iterations + 1
  /\ ClearHeartbeat
  /\ last_output_time' = relay_now
  /\ RelayClassify(output_chunk, CountedLines(output_chunk),
                   IF MainUsePty THEN PtyMarkerProgress(output_chunk)
                   ELSE PipeMarkerProgress(output_chunk),
                   FallbackProgress(CountedLines(output_chunk)))
  /\ UNCHANGED <<relay_now, consumerPc, heartbeat_idx>>
  /\ RelayPtyFrame

\* a second passes
RelayTick ==
  /\ relay_now < MaxTime
  /\ relay_now' = relay_now + 1
  /\ UNCHANGED <<relay_line_count, last_progress, last_progress_time,
                 last_change_time, stdout, relay_iterations,
                 last_output_time, stderr>>
  /\ RelayFrame

RelaySpecInit ==
  /\ EngineInit /\ GuiIdle /\ CancelIdle /\ PtyInit
  /\ PlatformInit /\ MainIdle /\ RelayInit /\ SignalIdle

RelayNext ==
  \/ \E output_chunk \in RelayChunks : RelayIteration(output_chunk)
  \/ RelayTick

RelaySpec == RelaySpecInit /\ [][RelayNext]_vars

\* writes to stderr that are explored
MaxStderr == 5

\* a branch of "except queue.Empty" that resets last_output_time when it
\* writes the heartbeat
RelayTimeout_resetsIdle ==
  /\ MainUsePty
  /\ consumerPc = "loop"
  /\ queue = <<>>
  /\ Len(stderr) + 2 <= MaxStderr
  /\ IF ~termAlive
     THEN /\ ClearHeartbeat
          /\ consumerPc' = "left"
          /\ UNCHANGED <<heartbeat_idx, last_output_time>>
     ELSE /\ (relay_now - last_output_time) > IdleSeconds
          /\ stderr' = stderr \o <<(<<"clear", heartbeat_len>>),
                                   (<<"heartbeat", heartbeat_idx>>)>>
          /\ heartbeat_len' = HeartbeatMsgLen
          /\ heartbeat_idx' = (heartbeat_idx + 1) % HeartbeatChars
          /\ last_output_time' = relay_now
          /\ UNCHANGED consumerPc
  /\ UNCHANGED <<relay_line_count, last_progress, last_progress_time,
                 relay_now, last_change_time, stdout, relay_iterations>>
  /\ RelayPtyFrame

\* get(timeout=0.1) raises queue.Empty: with the child gone and the queue
\* empty the heartbeat is cleared and the loop is left; with the child alive
\* and no output for more than 5 seconds the old heartbeat is blanked and
\* the next one is written to stderr; otherwise nothing happens
RelayTimeout ==
  /\ MainUsePty
  /\ consumerPc = "loop"
  /\ queue = <<>>
  /\ Len(stderr) + 2 <= MaxStderr
  /\ IF ~termAlive
     THEN /\ ClearHeartbeat
          /\ consumerPc' = "left"
          /\ UNCHANGED heartbeat_idx
     ELSE /\ (relay_now - last_output_time) > IdleSeconds
          /\ stderr' = stderr \o <<(<<"clear", heartbeat_len>>),
                                   (<<"heartbeat", heartbeat_idx>>)>>
          /\ heartbeat_len' = HeartbeatMsgLen
          /\ heartbeat_idx' = (heartbeat_idx + 1) % HeartbeatChars
          /\ UNCHANGED consumerPc
  /\ UNCHANGED <<relay_line_count, last_progress, last_progress_time,
                 relay_now, last_change_time, stdout, relay_iterations,
                 last_output_time>>
  /\ RelayPtyFrame

\* what a read of the PTY loop may return while the heartbeat is looked at
HeartbeatChunks == {L_NuitkaOptions, L_Plain}

HeartbeatSpecInit ==
  /\ EngineInit /\ GuiIdle /\ CancelIdle /\ PtyInit /\ MainIdle
  /\ RelayInit /\ SignalIdle
  /\ platform = "win32" /\ winpty_loaded = TRUE

HeartbeatNext ==
  \/ \E output_chunk \in HeartbeatChunks : RelayIteration(output_chunk)
  \/ RelayTick
  \/ RelayTimeout
  \/ TermExit

\* the PTY read loop of main with its clock, the child's end and the
\* heartbeat
HeartbeatSpec == HeartbeatSpecInit /\ [][HeartbeatNext]_vars

\* ------------------------------------------------------------------------
\* Properties of the PROGRESS lines of build_exe.main (RelaySpec)
\* ------------------------------------------------------------------------

\* what the step has written to stdout
NewStdout == SubSeq(stdout', Len(stdout) + 1, Len(stdout'))

\* the values of the PROGRESS lines of the given origin written by the step
ProgressWritten(origin) ==
  {NewStdout[i][2] :
     i \in {j \in DOMAIN NewStdout :
              NewStdout[j][1] = "progress" /\ NewStdout[j][3] = origin}}

\* the values of all PROGRESS lines written before the step
OverallEmitted ==
  {stdout[i][2] : i \in {j \in DOMAIN stdout : stdout[j][1] = "progress"}}

\* C24: the idle fallback writes a PROGRESS line only in an iteration where
\* no marker wrote one, only when more than 5 seconds have passed since the
\* most recent PROGRESS line of any origin, and its value is not lower than
\* any value written earlier in the run
C24_FallbackOnlyWhenIdle ==
  [][\A value \in ProgressWritten("fallback") :
       /\ ProgressWritten("marker") = {}
       /\ relay_now - last_change_time > IdleSeconds
       /\ \A earlier \in OverallEmitted : value >= earlier]_vars

\* the fallback has lowered the progress a marker reported
C24_FallbackRegressed ==
  \E i, j \in DOMAIN stdout :
    /\ i < j
    /\ stdout[i][1] = "progress" /\ stdout[j][1] = "progress"
    /\ stdout[j][3] = "fallback"
    /\ stdout[j][2] < stdout[i][2]

\* C30: within one iteration of the read loop the line is classified before
\* it is echoed: a PROGRESS line the classification of a chunk writes comes
\* before the echo of that chunk
C30_ClassifiedBeforeEcho ==
  [][\A i, j \in DOMAIN NewStdout :
       (NewStdout[i][1] = "output" /\ NewStdout[j][1] = "progress")
         => j < i]_vars

\* the chunk was echoed, then the PROGRESS line of its marker was written
C30_EchoedBeforeClassified ==
  \E i \in DOMAIN stdout :
    /\ i + 1 \in DOMAIN stdout
    /\ stdout[i][1] = "output"
    /\ stdout[i + 1][1] = "progress" /\ stdout[i + 1][3] = "marker"

\* ------------------------------------------------------------------------
\* build_exe.signal_handler: SIGINT, SIGTERM or SIGBREAK while main runs
\* ------------------------------------------------------------------------

\* the branch of the handler's if / elif / else the registered handle takes:
\* the PTY process has a close method, the Popen object has kill and no close
SignalCall == IF MainUsePty THEN "terminate_force" ELSE "kill"

SignalFrame ==
  /\ UNCHANGED <<config_state, python_exists, copy_beside, installer_enabled,
                 main_active, main_return_code, stages, main_line_count>>
  /\ UNCHANGED <<engineVars, guiVars, cancelVars, ptyVars, relayVars>>

\* the call on the child has returned: the child is gone
SignalTerminated ==
  /\ nuitka' = "exited"
  /\ IF nuitka = "alive"
     THEN \E code \in ExitCodes \ {0} : nuitka_exit' = <<code, "forced">>
     ELSE UNCHANGED nuitka_exit
  /\ signal_report' = <<SignalCall, "terminated">>

\* a handler without the try block: the exception of the call on the child
\* leaves the handler and reaches the handler of main's inner try block
signal_handler_reraises ==
  /\ mainPc \notin {"idle", "exited"}
  /\ signal_report = <<>>
  /\ IF main_active = "None"
     THEN /\ signal_report' = <<"no_child">>
          /\ UNCHANGED <<nuitka, nuitka_exit>>
          /\ SysExit(1, "signal")
     ELSE \/ SignalTerminated /\ SysExit(1, "signal")
          \/ /\ signal_report' = <<SignalCall, "raised">>
             /\ UNCHANGED <<nuitka, nuitka_exit>>
             /\ InnerExcept("terminate")
  /\ SignalFrame

\* the handler runs in the main thread between two statements of main: it
\* terminates the registered child inside a try block whose handler prints
\* the exception, then calls sys.exit(1)
signal_handler ==
  /\ mainPc \notin {"idle", "exited"}
  /\ signal_report = <<>>
  /\ IF main_active = "None"
     THEN /\ signal_report' = <<"no_child">>
          /\ UNCHANGED <<nuitka, nuitka_exit>>
     ELSE \/ SignalTerminated
          \/ /\ signal_report' = <<SignalCall, "error">>
             /\ UNCHANGED <<nuitka, nuitka_exit>>
  /\ SysExit(1, "signal")
  /\ SignalFrame

SignalNext ==
  \/ MainNext
  \/ signal_handler

\* main from its call to its end, with a termination signal at any point
SignalSpec == MainSpecInit /\ [][SignalNext]_vars

\* C26: once the signal handler has run, the process has left main with a
\* non-zero exit code given by the handler itself; the handler reported "no
\* child" exactly when none was registered; otherwise it made the
\* terminating call on the child, which either ended the child or raised
\* an exception the handler reported
C26_SignalExitsNonZero ==
  signal_report # <<>> =>
    /\ mainPc = "exited"
    /\ system_exit # <<>> /\ system_exit[1] # 0
    /\ main_failure = "signal"
    /\ signal_report = <<"no_child">> <=> main_active = "None"
    /\ main_active # "None" =>
         /\ signal_report[1] = SignalCall
         /\ signal_report[2] \in {"terminated", "error"}
         /\ signal_report[2] = "terminated" => nuitka = "exited"

\* the terminating call raised while the child was running: the handler
\* reported the error and the process exited with 1, the child still alive
C26_Witness ==
  /\ signal_report = <<"kill", "error">>
  /\ nuitka = "alive"
  /\ main_active = "child"
  /\ mainPc = "exited"
  /\ system_exit = <<1>>

\* ------------------------------------------------------------------------
\* The wait for the exit code and read errors in build_exe.main
\* ------------------------------------------------------------------------

\* the main thread is scheduled: the statement that collects the exit code
\* runs whenever it can return.  Nothing obliges the child to end.
FairMainSpec == MainSpec /\ WF_vars(MainWait)

\* C27: once main has left its read loop and waits for the exit code, a
\* return code is produced, whether or not the child ever ends by itself
C27_ExitCodeAlwaysCollected ==
  (mainPc = "wait") ~> (main_return_code # <<>>)

\* pipe branch: main is in process.wait() and the child is still running
C27_PipeWaitBlocked ==
  /\ mainPc = "wait"
  /\ ~MainUsePty
  /\ nuitka = "alive"
  /\ main_return_code = <<>>

\* C28: a failure while reading the child's output ends the read loop like
\* the end of the stream: once the child has been launched main does not
\* leave without having collected the child's exit code, and it reports the
\* child as failed exactly when that code is not 0
C28_ReadErrorIsEndOfStream ==
  (mainPc = "exited" /\ nuitka # "none") =>
    /\ main_return_code # <<>>
    /\ main_failure = "child" <=> main_return_code[1] # 0

\* pipe branch: the child ended with code 0, reading its output raised, and
\* main exited with 1 without collecting the exit code
C28_ReadErrorReportedAsFailure ==
  /\ mainPc = "exited"
  /\ main_failure = "read"
  /\ system_exit = <<1>>
  /\ nuitka_exit = <<0, "self">>
  /\ main_return_code = <<>>

\* C33: when main has ended after it registered a child and entered its read
\* loop, whatever the outcome it reported, active_process is None
C33_ReferenceClearedAtFinalStatus ==
  (mainPc = "exited" /\ \E i \in DOMAIN stages : stages[i] = "read") =>
    main_active = "None"

\* main reported the exception of its read loop and exited with 1, the
\* reference to the child still set
C33_ReferenceLeftSet ==
  /\ mainPc = "exited"
  /\ main_failure = "read"
  /\ system_exit = <<1>>
  /\ main_active = "child"

\* ------------------------------------------------------------------------
\* Properties of the heartbeat of build_exe.main (HeartbeatSpec)
\* ------------------------------------------------------------------------

\* the step is the branch of "except queue.Empty" that writes or clears the
\* heartbeat: stderr is written and no chunk is taken
HeartbeatStep == stderr' # stderr /\ relay_iterations' = relay_iterations

\* C35: writing or clearing the heartbeat leaves last_output_time, the line
\* count, the last progress value and its time, and everything written to
\* stdout as they are; the heartbeat goes to stderr, the PROGRESS lines to
\* stdout
C35_HeartbeatIsCosmetic ==
  [][HeartbeatStep =>
       /\ UNCHANGED <<last_output_time, relay_line_count, last_progress,
                      last_progress_time, last_change_time, stdout>>
       /\ \A i \in DOMAIN stdout' : stdout'[i][1] \in {"output", "progress"}
       /\ \A i \in DOMAIN stderr' : stderr'[i][1] \in {"clear", "heartbeat"}
  ]_vars

\* a chunk was written a second after the start, then the heartbeat was
\* written twice: last_output_time still is the time of the chunk, and
\* stdout holds the start line and the chunk only
C35_Witness ==
  /\ heartbeat_idx = 2
  /\ heartbeat_len = HeartbeatMsgLen
  /\ Len(stderr) = 4
  /\ stderr[4] = <<"heartbeat", 1>>
  /\ last_output_time = 1
  /\ relay_line_count = 1
  /\ last_progress = 10
  /\ stdout = <<(<<"progress", 10, "start">>), (<<"output", L_Plain>>)>>

\* ------------------------------------------------------------------------
\* Escape sequences cut by the reads of the PTY branch
\* ------------------------------------------------------------------------

\* "ab", a colour sequence, "cd" and a newline in one read
L_EscWhole ==
  <<"a","b",ESC,"[","3","1","m","c","d","\n">>

\* the same text cut inside the colour sequence
L_EscHead ==
  <<"a","b",ESC,"[","3">>

L_EscTail ==
  <<"1","m","c","d","\n">>

\* a cursor-visibility sequence in one read, and cut after its "?"
L_CursorWhole ==
  <<"x",ESC,"[","?","2","5","h","y","\n">>

L_CursorHead ==
  <<"x",ESC,"[","?">>

L_CursorTail ==
  <<"2","5","h","y","\n">>

\* what a read of the PTY returns while cut sequences are looked at
SplitChunks ==
  {L_EscWhole, L_EscHead, L_EscTail, L_CursorWhole, L_CursorHead,
   L_CursorTail, L_Plain, L_Ghi}

SplitNext ==
  \/ \E chunk \in SplitChunks : ReadOutput(chunk)
  \/ HandleLine

\* the PTY branch of the worker reading text with escape sequences
SplitSpec == EngineSpecInit /\ [][SplitNext]_vars

\* C37: what the output widget shows does not depend on where the reads cut
\* the child's text: the text with a colour sequence shows as "abcd" and
\* the text with a cursor sequence as "xy", whether the sequence came in
\* one read or cut over two
C37_DisplayIndependentOfCut ==
  pending = <<>> =>
    /\ received \in {<<L_EscWhole>>, <<L_EscHead, L_EscTail>>} =>
         outputText = <<"a","b","c","d","\n">>
    /\ received \in {<<L_CursorWhole>>, <<L_CursorHead, L_CursorTail>>} =>
         outputText = <<"x","y","\n">>

\* the sequence came in one read and is not shown
C37_WholeSequenceStripped ==
  /\ pending = <<>>
  /\ received = <<L_EscWhole>>
  /\ outputText = <<"a","b","c","d","\n">>

\* the sequence was cut over two reads and all of it is shown
C37_CutSequenceDisplayed ==
  /\ pending = <<>>
  /\ received = <<L_EscHead, L_EscTail>>
  /\ outputText = <<"a","b",ESC,"[","3","1","m","c","d","\n">>

\* ------------------------------------------------------------------------
\* append_output as the slot of every emitter of signals.output
\* ------------------------------------------------------------------------

\* five lines' worth of newlines around two letters, no carriage return
T_BlankRun ==
  <<"a","\n","\n","\n","\n","b","\n">>

\* newlines only
T_Newlines ==
  <<"\n","\n","\n">>

\* blank lines that an escape sequence separates
T_BlankAnsi ==
  <<"a","\n",ESC,"[","0","m","\n","\n","b">>

\* a redraw whose new text holds blank lines
T_CrBlank ==
  <<"a","b","c","\r","d","\n","\n","\n","e">>

\* a redraw whose new text ends with blank lines
T_CrTrail ==
  <<"a","\r","d","\n","\n","\n">>

\* a redraw whose blank lines an escape sequence separates
T_CrAnsi ==
  <<"\r","d","\n",ESC,"[","0","m","\n","\n","e","\n">>

\* the texts the emitters hand to append_output
NormalizerTexts ==
  {T_BlankRun, T_Newlines, T_BlankAnsi, T_CrBlank, T_CrTrail, T_CrAnsi,
   L_Plain, L_Ghi, L_AbcCrDef, L_ProgressBad, L_EscWhole, <<>>}

\* signals.output delivers text to append_output
AppendOutput(text) ==
  /\ reads < MaxReads
  /\ reads' = reads + 1
  /\ lastLine' = text
  /\ outputText' = append_output(outputText, text)
  /\ UNCHANGED <<current_phase, last_overall_progress, last_task_progress,
                 line_count, overall_percent, overall_message, task_percent,
                 task_message, signalLog, pending, received, workerAt,
                 exit_code, stream_open, finished>>
  /\ UNCHANGED <<guiVars, cancelVars, ptyVars, mainVars, relayVars, signalVars>>

NormalizerNext == \E text \in NormalizerTexts : AppendOutput(text)

\* the output widget fed by the emitters of signals.output
NormalizerSpec == EngineSpecInit /\ [][NormalizerNext]_vars

\* the length of the part of the document that a step leaves in place
KeptLen ==
  LET short == IF Len(outputText) <= Len(outputText')
               THEN Len(outputText) ELSE Len(outputText')
      same  == {k \in 0..short :
                  SubSeq(outputText, 1, k) = SubSeq(outputText', 1, k)}
  IN  CHOOSE k \in same : \A j \in same : j <= k

\* the text a step writes into the document
WrittenText == SubSeq(outputText', KeptLen + 1, Len(outputText'))

ThreeNewlines == <<"\n","\n","\n">>

HasCR(text) == \E i \in 1..Len(text) : text[i] = "\r"

\* C38: the text that append_output writes for one call never holds three
\* newlines in a row, with or without a carriage return in the text
C38_NoThreeNewlinesWritten ==
  [][~Contains(WrittenText, ThreeNewlines)]_vars

\* the same for the texts without a carriage return
C38_PlainPathCollapses ==
  [][~HasCR(lastLine') => ~Contains(WrittenText, ThreeNewlines)]_vars

\* a redraw has left three newlines in a row in the document
C38_RedrawKeepsBlankLines ==
  /\ lastLine = T_CrBlank
  /\ outputText = <<"d","\n","\n","\n","e">>

\* a text without a carriage return had its blank lines reduced to one
C38_PlainCollapsed ==
  /\ lastLine = T_BlankRun
  /\ outputText = <<"a","\n","\n","b","\n">>

\* ------------------------------------------------------------------------
\* Lines that append_output keeps out of the document
\* ------------------------------------------------------------------------

\* the step is one iteration of the worker's loop over the lines
LineHandled == pending # <<>> /\ pending' = Tail(pending)

\* C39: a line of the child that the worker does not consume as explicit
\* progress is written to the output widget: the text the step writes into
\* the document begins with the line (lines with a carriage return, which
\* redraw the last line instead, are left aside)
C39_UnconsumedLineDisplayed ==
  [][(LineHandled /\ ~HasCR(lastLine')
        /\ ~ExplicitHandled(CleanLine(lastLine')))
       => StartsWith(WrittenText, AnsiReSub(CleanLine(lastLine')))]_vars

\* the same for the lines that do not begin with "PROGRESS:"
C39_OtherLinesDisplayed ==
  [][(LineHandled /\ ~HasCR(lastLine')
        /\ ~StartsWith(Strip(CleanLine(lastLine')), P_PROGRESS))
       => StartsWith(WrittenText, AnsiReSub(CleanLine(lastLine')))]_vars

\* "PROGRESS:abc:def" was handled: no progress signal was emitted for it
\* and the document holds the debug echo only
C39_MalformedLineWithheld ==
  /\ received = <<L_ProgressBad>>
  /\ pending = <<>>
  /\ lastLine = L_ProgressBad
  /\ \A i \in DOMAIN signalLog : signalLog[i][3] = "initial"
  /\ outputText = S_DebugDetected \o Strip(L_ProgressBad) \o <<"\n">>

====
